---- MODULE Spec2Model ----
(***************************************************************************)
(* Model of the RSS bot pipeline of aljonb/zeno (bots/lib/*.js):           *)
(* runBot drives  verifyBotProfile -> fetch -> filterUnprocessedItems ->   *)
(* createPostsBatch -> markItemAsProcessed  against two shared tables,     *)
(* posts and processed_rss_items (the dedup ledger).  Every await of the   *)
(* code is one step of the model, so runs that overlap in time interleave  *)
(* at exactly the points where the code yields.                            *)
(***************************************************************************)
EXTENDS Integers, Sequences, FiniteSets, TLC

(***************************************************************************)
(* Bounds of the model.                                                    *)
(***************************************************************************)
\* Number of runBot invocations in one behaviour.
MaxRuns == 2
\* Number of failures of external calls (and process stops) in one behaviour.
MaxFaults == 1
\* Largest value tried for the option maxPostsPerRun.
MaxCap == 2
\* The value the option maxPostsPerFeed has in the runs of the model.
PerFeedCap == 1
\* Longest list of raw items handed to filterItemsByDate on its own.
MaxItems == 2
\* Most runs of one bot in progress at once under the cron triggers.
MaxOverlap == 2
\* Items in one batch handed to filterUnprocessedItems or to
\* generateSummariesBatch.
MaxBatch == 3
\* Largest maxRetries handed to retryWithBackoff.
MaxRetriesArg == 3
\* Firings of a bot's trigger that are told apart.
MaxFirings == 7
\* Entries the embedding cache of the search route holds (1000 in the source,
\* scaled down so that a full cache and its evictions are reached).
CACHE_MAX_SIZE == 2
\* POST requests of the search route in progress at once.
MaxRequests == 2

(***************************************************************************)
(* Program constants.                                                      *)
(***************************************************************************)
\* runBot's default fetchWindowMinutes.
fetchWindowMinutes == 60
\* Seconds per minute: the code computes the cutoff as minutesAgo * 60 * 1000 ms;
\* the model counts time in seconds.
SecondsPerMinute == 60

\* Date.now() at the fetch, in seconds.
Now0 == 6000
\* The absent publication date of a raw item.
NoDate == -1
\* A publication date that does not parse: new Date(pubDate).getTime() is NaN.
BadDate == -2
\* The absent value (null / undefined).
Null == "null"
\* createPost's null result, where a post id is expected.
NoPost == <<>>

(***************************************************************************)
(* Bot configuration (BOT_CONFIGS): botA reads two sources, botB reads one *)
(* of them (as mma-news-bot and world-news-bot share a source).  schedule  *)
(* is n for the cron expression  */n * * * *                               *)
(***************************************************************************)
Bots == {"botA", "botB"}

BOT_CONFIGS ==
  [b \in Bots |->
     IF b = "botA"
     THEN [id |-> "botA", user_id |-> "bot_botA", feeds |-> <<"f1", "f2">>,
           schedule |-> 15]
     ELSE [id |-> "botB", user_id |-> "bot_botB", feeds |-> <<"f1">>,
           schedule |-> 10]]

FeedUrls == {"f1", "f2"}

(***************************************************************************)
(* What the sources deliver (raw items as rss-parser returns them, in feed *)
(* order).  f1 lists an older item before a newer one, an item without a   *)
(* guid, an item older than the window and an item without a date; f2      *)
(* carries the article of f1's newest item under another guid (same link). *)
(***************************************************************************)
FeedContent ==
  [f \in FeedUrls |->
     IF f = "f1"
     THEN << [guid |-> "",   link |-> "l1", pubDate |-> Now0 - 3000,
              published |-> NoDate, isoDate |-> NoDate],
             [guid |-> "g2", link |-> "l2", pubDate |-> Now0 - 600,
              published |-> NoDate, isoDate |-> Now0 - 600],
             [guid |-> "g4", link |-> "l4", pubDate |-> Now0 - 5400,
              published |-> NoDate, isoDate |-> NoDate],
             [guid |-> "g5", link |-> "l5", pubDate |-> NoDate,
              published |-> NoDate, isoDate |-> NoDate] >>
     ELSE << [guid |-> "g3", link |-> "l2", pubDate |-> NoDate,
              published |-> NoDate, isoDate |-> Now0 - 1800] >>]

(***************************************************************************)
(* Sequence helpers.                                                       *)
(***************************************************************************)
Min(a, b) == IF a <= b THEN a ELSE b

Range(s) == {s[i] : i \in 1..Len(s)}

\* Array.prototype.slice(0, n).
Slice(s, n) == SubSeq(s, 1, Min(n, Len(s)))

RECURSIVE Flatten(_)
Flatten(ss) == IF ss = <<>> THEN <<>> ELSE Head(ss) \o Flatten(Tail(ss))

MapSeq(Op(_), s) == [i \in 1..Len(s) |-> Op(s[i])]

\* Insert x into a list sorted newest first, after every element that is not
\* older than x (Array.prototype.sort is stable).
RECURSIVE InsertByDate(_, _)
InsertByDate(x, s) ==
  IF s = <<>> THEN <<x>>
  ELSE IF Head(s).pubDate >= x.pubDate
       THEN <<Head(s)>> \o InsertByDate(x, Tail(s))
       ELSE <<x>> \o s

RECURSIVE SortFrom(_, _)
SortFrom(s, acc) ==
  IF s = <<>> THEN acc ELSE SortFrom(Tail(s), InsertByDate(Head(s), acc))

\* A merge that leaves the items in source order.
KeepOrder(s) == s

\* allItems.sort((a, b) => b.pubDateObject - a.pubDateObject)
SortNewestFirst(s) == SortFrom(s, <<>>)

(***************************************************************************)
(* rss-fetcher.js                                                          *)
(***************************************************************************)
\* const pubDate = item.pubDate || item.published || item.isoDate
PubDateOf(item) ==
  IF item.pubDate # NoDate THEN item.pubDate
  ELSE IF item.published # NoDate THEN item.published
  ELSE item.isoDate

\* A filter that drops the item published exactly at the cutoff.
filterItemsByDateStrict(items, now, minutesAgo) ==
  LET cutoffTime == now - minutesAgo * SecondsPerMinute
      keep(item) == LET pubDate == PubDateOf(item)
                    IN pubDate # NoDate /\ pubDate # BadDate /\ pubDate > cutoffTime
  IN SelectSeq(items, keep)

\* A filter that lets an item without a date through.
filterItemsByDateLax(items, now, minutesAgo) ==
  LET cutoffTime == now - minutesAgo * SecondsPerMinute
      keep(item) == LET pubDate == PubDateOf(item)
                    IN pubDate = NoDate \/ (pubDate # BadDate /\ pubDate >= cutoffTime)
  IN SelectSeq(items, keep)

\* filterItemsByDate: keep an item that has a date, whose date parses and is
\* at or after the cutoff.
filterItemsByDate(items, now, minutesAgo) ==
  LET cutoffTime == now - minutesAgo * SecondsPerMinute
      keep(item) == LET pubDate == PubDateOf(item)
                    IN pubDate # NoDate /\ pubDate # BadDate /\ pubDate >= cutoffTime
  IN SelectSeq(items, keep)

\* normalizeItem: guid falls back to the link; the source address is attached.
normalizeItem(item, feedUrl) ==
  [guid    |-> IF item.guid # "" THEN item.guid ELSE item.link,
   link    |-> item.link,
   pubDate |-> PubDateOf(item),
   feedUrl |-> feedUrl]

\* fetchFeed: a failed source yields success = false and no items.
fetchFeed(feedUrl, failed) ==
  IF feedUrl \in failed
  THEN [success |-> FALSE, feedUrl |-> feedUrl, items |-> <<>>,
        error |-> "fetch failed"]
  ELSE [success |-> TRUE,  feedUrl |-> feedUrl, items |-> FeedContent[feedUrl],
        error |-> Null]

\* The recent, normalized items of one fetch result.
RecentItems(result, now, minutesAgo) ==
  LET norm(item) == normalizeItem(item, result.feedUrl)
  IN MapSeq(norm, filterItemsByDate(result.items, now, minutesAgo))

\* A fetch that gives up on every source when one of them fails.
fetchMultipleFeedsAllOrNothing(feedUrls, failed, now, minutesAgo) ==
  LET feedResults == [i \in 1..Len(feedUrls) |-> fetchFeed(feedUrls[i], failed)]
      per(result) == RecentItems(result, now, minutesAgo)
  IN IF \E i \in 1..Len(feedResults) : ~feedResults[i].success THEN <<>>
     ELSE SortNewestFirst(Flatten(MapSeq(per, feedResults)))

\* fetchMultipleFeeds: all sources at once, failed ones skipped, the rest
\* merged in source order and sorted newest first.
fetchMultipleFeeds(feedUrls, failed, now, minutesAgo) ==
  LET feedResults == [i \in 1..Len(feedUrls) |-> fetchFeed(feedUrls[i], failed)]
      ok(result)  == result.success
      per(result) == RecentItems(result, now, minutesAgo)
  IN SortNewestFirst(Flatten(MapSeq(per, SelectSeq(feedResults, ok))))

\* fetchItemsForBot
fetchItemsForBot(botConfig, failed, now, minutesAgo) ==
  IF Len(botConfig.feeds) = 0 THEN <<>>
  ELSE fetchMultipleFeeds(botConfig.feeds, failed, now, minutesAgo)

\* fetchItemsForBotSeparately: one entry per successfully fetched source,
\* holding its recent items newest first.
fetchItemsForBotSeparately(botConfig, failed, now, minutesAgo) ==
  LET feedResults == [i \in 1..Len(botConfig.feeds) |->
                        fetchFeed(botConfig.feeds[i], failed)]
      ok(result)  == result.success
      per(result) == [feedUrl |-> result.feedUrl,
                      items   |-> SortNewestFirst(RecentItems(result, now, minutesAgo))]
  IN MapSeq(per, SelectSeq(feedResults, ok))

(***************************************************************************)
(* State.                                                                  *)
(***************************************************************************)
VARIABLES
  posts,        \* the posts table: rows [id, user_id, rss_source_url, guid]
  ledger,       \* the processed_rss_items table
  run,          \* one record per runBot invocation in progress (or returned)
  options,      \* RUN_OPTIONS, read once at process start
  now,          \* Date.now(), in seconds
  runsStarted,  \* runBot invocations so far
  faults,       \* failures of external calls so far
  hist,         \* history of the behaviour: what went wrong so far
  fetcher,      \* one call of filterItemsByDate on its own: arguments and result
  proc,         \* the process of index.js: command, triggers, timers, clock
  dedup,        \* one use of deduplicator.js on its own: arguments and results
  summ,         \* one use of the summarizer on its own: arguments and results
  search        \* the search route: its embedding cache and the requests in progress

vars == <<posts, ledger, run, options, now, runsStarted, faults, hist, fetcher,
          proc, dedup, summ, search>>

\* The invocations that can be in progress at once.
Runs == {1, 2}

Active == {"verify", "fetch", "filter", "post", "mark"}

\* const results = {...} (success false, every counter 0, no errors)
NewResults ==
  [success |-> FALSE, itemsFetched |-> 0, itemsNew |-> 0, postsCreated |-> 0,
   feedsProcessed |-> 0, errors |-> <<>>]

IdleRun ==
  [pc |-> "idle", bot |-> Null, seq |-> 0, feeds |-> <<>>, items |-> <<>>, k |-> 0,
   newItems |-> <<>>, itemsToProcess |-> <<>>, itemsToPost |-> <<>>, i |-> 0,
   createdPosts |-> <<>>, m |-> 0, results |-> NewResults,
   pool |-> <<>>, failed |-> {}, seenNew |-> <<>>, nullPosts |-> {}, marked |-> 0]

(***************************************************************************)
(* deduplicator.js                                                         *)
(***************************************************************************)
\* Lookups that compare the guid column with the link and the link column
\* with the guid.
isItemProcessedSwapped(table, botId, item, guidOk, linkOk) ==
  LET guidMatch == guidOk /\ \E rec \in table :
                     rec.bot_id = botId /\ rec.item_guid = item.link
      linkMatch == linkOk /\ \E rec \in table :
                     rec.bot_id = botId /\ rec.item_link = item.guid
  IN IF guidMatch THEN TRUE ELSE linkMatch

\* A lookup by guid alone.
isItemProcessedGuidOnly(table, botId, item, guidOk, linkOk) ==
  guidOk /\ \E rec \in table :
               rec.bot_id = botId /\ rec.item_guid = item.guid

\* Lookups without the .eq('bot_id', botId) filter.
isItemProcessedAnyBot(table, botId, item, guidOk, linkOk) ==
  LET guidMatch == guidOk /\ \E rec \in table : rec.item_guid = item.guid
      linkMatch == linkOk /\ \E rec \in table : rec.item_link = item.link
  IN IF guidMatch THEN TRUE ELSE linkMatch

\* Lookups whose failure makes the item count as processed.
isItemProcessedOrFailed(table, botId, item, guidOk, linkOk) ==
  \/ ~guidOk
  \/ ~linkOk
  \/ \E rec \in table :
        /\ rec.bot_id = botId
        /\ (rec.item_guid = item.guid \/ rec.item_link = item.link)

\* The two lookups of isItemProcessed: by guid, then by link.  A lookup that
\* errors returns no row, and the item counts as not processed.
isItemProcessed(table, botId, item, guidOk, linkOk) ==
  LET guidMatch == guidOk /\ \E rec \in table :
                     rec.bot_id = botId /\ rec.item_guid = item.guid
      linkMatch == linkOk /\ \E rec \in table :
                     rec.bot_id = botId /\ rec.item_link = item.link
  IN IF guidMatch THEN TRUE ELSE linkMatch

\* A table with UNIQUE(item_guid, bot_id) alone.
GuidOnlyViolation(table, rec) ==
  \E old \in table : old.bot_id = rec.bot_id /\ old.item_guid = rec.item_guid

\* UNIQUE(item_guid, bot_id), UNIQUE(item_link, bot_id)
UniqueViolation(table, rec) ==
  \E old \in table :
     /\ old.bot_id = rec.bot_id
     /\ (old.item_guid = rec.item_guid \/ old.item_link = rec.item_link)

\* The row markItemAsProcessed inserts; processed_at is the time of the call.
LedgerRecord(botId, item, postId) ==
  [bot_id |-> botId, item_guid |-> item.guid, item_link |-> item.link,
   created_post_id |-> postId, processed_at |-> now]

\* The table after markItemAsProcessed: an insert that errors, or that hits a
\* uniqueness constraint (23505, reported as success), leaves it as it was.
markItemAsProcessed(table, botId, item, postId, insertOk) ==
  LET rec == LedgerRecord(botId, item, postId)
  IN IF insertOk /\ ~UniqueViolation(table, rec) THEN table \cup {rec} ELSE table

\* A markItemAsProcessed that reports the uniqueness violation as a failure.
markItemAsProcessedStrict(table, botId, item, postId, insertOk) ==
  insertOk /\ ~UniqueViolation(table, LedgerRecord(botId, item, postId))

\* What markItemAsProcessed returns: false for an insert that errors or throws,
\* true for error code 23505 (already marked) and for a row inserted.
markItemAsProcessedReturns(table, botId, item, postId, insertOk) ==
  IF ~insertOk THEN FALSE
  ELSE IF UniqueViolation(table, LedgerRecord(botId, item, postId)) THEN TRUE
  ELSE TRUE

\* The lookups of one item of a batch: fault names the ones that fail.
LookupProcessed(table, botId, item, fault) ==
  isItemProcessed(table, botId, item,
                  fault \notin {"guid", "both"}, fault \notin {"link", "both"})

\* filterUnprocessedItems: for (const item of items), push the item unless
\* isItemProcessed; the items kept stay in the order of the input.
RECURSIVE filterUnprocessedItems(_, _, _, _)
filterUnprocessedItems(table, botId, items, failing) ==
  IF items = <<>> THEN <<>>
  ELSE LET rest == filterUnprocessedItems(table, botId, Tail(items),
                                          Tail(failing))
       IN IF LookupProcessed(table, botId, Head(items), Head(failing))
          THEN rest ELSE <<Head(items)>> \o rest

\* Seconds of a day: setDate(getDate() - daysOld) moves the cutoff by whole days.
SecondsPerDay == 24 * 60 * SecondsPerMinute

\* A cleanup that also deletes the records exactly daysOld days old.
cleanupOldItemsInclusive(table, at, daysOld, deleteOk) ==
  LET old == {rec \in table : rec.processed_at <= at - daysOld * SecondsPerDay}
  IN IF deleteOk THEN [table |-> table \ old, deleted |-> Cardinality(old)]
     ELSE [table |-> table, deleted |-> 0]

\* cleanupOldItems: delete().lt('processed_at', cutoffDate) and the number of
\* rows deleted; a delete that errors or throws deletes nothing and returns 0.
cleanupOldItems(table, at, daysOld, deleteOk) ==
  LET cutoffDate == at - daysOld * SecondsPerDay
      old == {rec \in table : rec.processed_at < cutoffDate}
  IN IF deleteOk THEN [table |-> table \ old, deleted |-> Cardinality(old)]
     ELSE [table |-> table, deleted |-> 0]

(***************************************************************************)
(* post-creator.js                                                         *)
(***************************************************************************)
\* The id the store gives the post of the i-th item of invocation seq
\* (gen_random_uuid(): any value no other post has).
NewPostId(seq, i) == <<seq, i>>

\* The row createPost inserts; the store assigns the id.  guid is not a column:
\* it records which item the post was made from.
PostRow(id, botConfig, item) ==
  [id |-> id, user_id |-> botConfig.user_id, rss_source_url |-> item.link,
   guid |-> item.guid]

\* A batch that takes every item.
NoLimit(items, maxPosts) == items

\* const itemsToPost = items.slice(0, maxPosts)
ItemsToPost(items, maxPosts) == Slice(items, maxPosts)

\* A batch that keeps the result of every createPost, null included.
PushAlways(createdPosts, post, item) ==
  Append(createdPosts, [post |-> post, item |-> item])

\* A batch that puts each created post in front of the earlier ones.
PushFront(createdPosts, post, item) ==
  IF post # NoPost THEN <<[post |-> post, item |-> item]>> \o createdPosts
  ELSE createdPosts

\* if (post) createdPosts.push({post, item})
PushCreated(createdPosts, post, item) ==
  IF post # NoPost THEN Append(createdPosts, [post |-> post, item |-> item])
  ELSE createdPosts

(***************************************************************************)
(* bot-runner.js: runBot, one step per await.                              *)
(***************************************************************************)
\* return results: the loop variables of the invocation are gone; what it
\* selected, created and counted stays for the caller to look at.
Return(rn) ==
  [rn EXCEPT !.feeds = <<>>, !.items = <<>>, !.k = 0, !.newItems = <<>>,
             !.itemsToProcess = <<>>, !.i = 0, !.m = 0]

\* A return that leaves results.success as it was initialised.
ReturnWithoutSuccess(rn) == Return([rn EXCEPT !.pc = "done"])

\* A return that reports success only when every post insert succeeded.
SucceedIfAllPosted(rn) ==
  Return([rn EXCEPT !.pc = "done", !.results.success = (rn.nullPosts = {})])

\* results.success = true; return results  (also the end of the try block)
Succeed(rn) == Return([rn EXCEPT !.pc = "done", !.results.success = TRUE])

\* An error that is recorded while the run goes on to fetch.
RecordAndGoOn(rn, message) ==
  [rn EXCEPT !.pc = "fetch", !.results.errors = Append(@, message)]

\* A catch block that records the error and starts the run over.
FailAndRetry(rn, message) ==
  [rn EXCEPT !.pc = "verify", !.results.errors = Append(@, message)]

\* catch (error): results.errors.push(error.message); results.success = false
Fail(rn, message) ==
  Return([rn EXCEPT !.pc = "failed", !.results.success = FALSE,
                    !.results.errors = Append(@, message)])

\* Step 6 is entered with the posts made: results.postsCreated is set; a dry
\* run and an empty list go straight to the end of the try block.
AfterCreatePosts(rn) ==
  LET rn1 == [rn EXCEPT !.results.postsCreated = Len(rn.createdPosts)]
  IN IF options.dryRun \/ Len(rn.createdPosts) = 0
     THEN Succeed(rn1)
     ELSE [rn1 EXCEPT !.pc = "mark", !.m = 1]

\* A batch that does not look at dryRun.
EnterCreatePostsBatchWet(rn) ==
  LET toPost == ItemsToPost(rn.itemsToProcess, options.maxPostsPerRun)
      rn1    == [rn EXCEPT !.itemsToPost = toPost, !.createdPosts = <<>>]
  IN IF Len(rn.itemsToProcess) = 0
     THEN AfterCreatePosts(rn1)
     ELSE [rn1 EXCEPT !.pc = "post", !.i = 1]

\* Step 5, createPostsBatch up to its first insert: no items gives [], the
\* items are cut to maxPosts, a dry run logs them and returns [].
EnterCreatePostsBatch(rn) ==
  LET toPost == ItemsToPost(rn.itemsToProcess, options.maxPostsPerRun)
      rn1    == [rn EXCEPT !.itemsToPost = toPost, !.createdPosts = <<>>]
  IN IF Len(rn.itemsToProcess) = 0 \/ options.dryRun
     THEN AfterCreatePosts(rn1)
     ELSE [rn1 EXCEPT !.pc = "post", !.i = 1]

\* Per-source mode, the loop over separatedFeeds up to the next await: a source
\* with no recent items is counted and skipped; after the last source the run
\* ends if nothing is new, and goes on to publish otherwise.
RECURSIVE NextFeed(_)
NextFeed(rn) ==
  IF rn.feeds = <<>>
  THEN IF Len(rn.itemsToProcess) = 0 THEN Succeed(rn) ELSE EnterCreatePostsBatch(rn)
  ELSE LET feed == Head(rn.feeds)
           rn1  == [rn EXCEPT !.feeds = Tail(@),
                              !.results.itemsFetched = @ + Len(feed.items)]
       IN IF Len(feed.items) = 0
          THEN NextFeed(rn1)
          ELSE [rn1 EXCEPT !.pc = "filter", !.items = feed.items, !.k = 1,
                           !.newItems = <<>>]

\* Step 2, after the fetch returned.
AfterFetchSeparately(rn, separatedFeeds) ==
  IF Len(separatedFeeds) = 0
  THEN Succeed(rn)
  ELSE NextFeed([rn EXCEPT !.feeds = separatedFeeds,
                           !.results.feedsProcessed = Len(separatedFeeds)])

AfterFetchCombined(rn, items) ==
  LET rn1 == [rn EXCEPT !.results.itemsFetched = Len(items)]
  IN IF Len(items) = 0
     THEN Succeed(rn1)
     ELSE [rn1 EXCEPT !.pc = "filter", !.items = items, !.k = 1, !.newItems = <<>>]

\* A per-source loop that keeps the count of the last source only.
AfterFilterSeparatelyLastCount(rn) ==
  LET rn1 == [rn EXCEPT !.results.itemsNew = Len(rn.newItems)]
  IN IF Len(rn.newItems) = 0
     THEN NextFeed(rn1)
     ELSE NextFeed([rn1 EXCEPT !.itemsToProcess = @ \o rn.newItems])

\* Step 3, after filterUnprocessedItems returned newItems.
AfterFilterSeparately(rn) ==
  LET rn1 == [rn EXCEPT !.results.itemsNew = @ + Len(rn.newItems)]
  IN IF Len(rn.newItems) = 0
     THEN NextFeed(rn1)
     ELSE NextFeed([rn1 EXCEPT !.itemsToProcess = @ \o rn.newItems])

AfterFilterCombined(rn) ==
  LET rn1 == [rn EXCEPT !.results.itemsNew = Len(rn.newItems)]
  IN IF Len(rn.newItems) = 0
     THEN Succeed(rn1)
     ELSE EnterCreatePostsBatch([rn1 EXCEPT !.itemsToProcess = rn.newItems])

AfterFilter(rn) ==
  IF options.processFeedsSeparately THEN AfterFilterSeparately(rn)
  ELSE AfterFilterCombined(rn)

\* Two items of one pool that share a guid or a link.
HasDuplicates(items) ==
  \E a, b \in 1..Len(items) :
     a # b /\ (items[a].guid = items[b].guid \/ items[a].link = items[b].link)

\* No call of filterItemsByDate on its own is under way.
NoCall == [pc |-> "none", items |-> <<>>, minutesAgo |-> 0, result |-> <<>>]

\* No function of deduplicator.js is being used on its own.
NoDedup == [pc |-> "none"]

\* No function of the summarizer is being used on its own.
NoSumm == [pc |-> "none"]

\* The search route is not serving.
NoSearch == [pc |-> "none"]

\* getAllBots(): the bots in configuration order.
BotOrder == <<"botA", "botB">>

\* The process of index.js before main() has run: no trigger, no timer, no
\* run, no batch.
NoProcess ==
  [pc |-> "none", command |-> Null, envOk |-> TRUE,
   defects |-> [b \in Bots |-> {}], reported |-> <<>>, clients |-> FALSE,
   scheduledJobs |-> [b \in Bots |-> "none"], cleanupJob |-> "none",
   timers |-> {}, clock |-> 0,
   active |-> [b \in Bots |-> 0],
   cycle |-> [state |-> "none", idx |-> 0, allResults |-> <<>>]]

(***************************************************************************)
(* Initial state: empty tables, no invocation in progress; the options are *)
(* whatever the environment variables say.                                 *)
(***************************************************************************)
Init ==
  /\ posts = {}
  /\ ledger = {}
  /\ run = [r \in Runs |-> IdleRun]
  /\ options \in [dryRun : BOOLEAN, processFeedsSeparately : BOOLEAN,
                  maxPostsPerRun : 1..MaxCap, maxPostsPerFeed : {PerFeedCap}]
  /\ now = Now0
  /\ runsStarted = 0
  /\ faults = 0
  /\ hist = [overlap |-> FALSE, crash |-> FALSE, lookupFault |-> FALSE,
             insertFault |-> FALSE, dupPool |-> FALSE]
  /\ fetcher = NoCall
  /\ proc = NoProcess
  /\ dedup = NoDedup
  /\ summ = NoSumm
  /\ search = NoSearch

\* A scheduled trigger or a manual command calls runBot.  The record of the new
\* invocation replaces the oldest record of a returned one.
StartRun(r, b) ==
  /\ run[r].pc \notin Active
  /\ \A q \in Runs :
       (q # r /\ run[q].pc \notin Active)
          => (run[r].seq < run[q].seq \/ (run[r].seq = run[q].seq /\ r < q))
  /\ runsStarted < MaxRuns
  /\ run' = [run EXCEPT ![r] = [IdleRun EXCEPT !.pc = "verify", !.bot = b,
                                              !.seq = runsStarted + 1]]
  /\ runsStarted' = runsStarted + 1
  /\ hist' = [hist EXCEPT !.overlap =
                @ \/ \E q \in Runs : q # r /\ run[q].pc \in Active /\ run[q].bot = b]
  /\ UNCHANGED <<posts, ledger, options, now, faults, fetcher, proc, dedup, summ, search>>

\* Step 1: verifyBotProfile; a missing row (or an error of the query) is thrown
\* and caught at the end of runBot.
VerifyBotProfile(r) ==
  /\ run[r].pc = "verify"
  /\ \E profileExists \in BOOLEAN :
       /\ ~profileExists => faults < MaxFaults
       /\ faults' = IF profileExists THEN faults ELSE faults + 1
       /\ run' = [run EXCEPT ![r] =
                    IF profileExists THEN [@ EXCEPT !.pc = "fetch"]
                    ELSE Fail(@, "Bot profile not found")]
  /\ UNCHANGED <<posts, ledger, options, now, runsStarted, hist, fetcher, proc, dedup, summ, search>>

\* Step 2: the sources are fetched at once and joined; any of them may fail.
Fetch(r) ==
  /\ run[r].pc = "fetch"
  /\ \E failed \in SUBSET Range(BOT_CONFIGS[run[r].bot].feeds) :
       LET botConfig == BOT_CONFIGS[run[r].bot]
           items     == fetchItemsForBot(botConfig, failed, now, fetchWindowMinutes)
           separated == fetchItemsForBotSeparately(botConfig, failed, now,
                                                   fetchWindowMinutes)
           sepItems(feed) == feed.items
           pool      == IF options.processFeedsSeparately
                        THEN Flatten(MapSeq(sepItems, separated)) ELSE items
           rn        == [run[r] EXCEPT !.pool = pool, !.failed = failed]
       IN /\ faults + Cardinality(failed) <= MaxFaults
          /\ faults' = faults + Cardinality(failed)
          /\ run' = [run EXCEPT ![r] =
                       IF options.processFeedsSeparately
                       THEN AfterFetchSeparately(rn, separated)
                       ELSE AfterFetchCombined(rn, items)]
          /\ hist' = [hist EXCEPT !.dupPool = @ \/ HasDuplicates(pool)]
  /\ UNCHANGED <<posts, ledger, options, now, runsStarted, fetcher, proc, dedup, summ, search>>

\* Step 3: filterUnprocessedItems asks the ledger about one item; after the last
\* item of the list the run goes on.
FilterItem(r) ==
  /\ run[r].pc = "filter"
  /\ \E guidOk, linkOk \in BOOLEAN :
       LET rn        == run[r]
           item      == rn.items[rn.k]
           nFail     == (IF guidOk THEN 0 ELSE 1) + (IF linkOk THEN 0 ELSE 1)
           processed == isItemProcessed(ledger, BOT_CONFIGS[rn.bot].id, item,
                                        guidOk, linkOk)
           rn1       == [rn EXCEPT !.k = @ + 1,
                           !.newItems = IF processed THEN @ ELSE Append(@, item),
                           !.seenNew  = IF processed THEN @ ELSE Append(@, item)]
       IN /\ faults + nFail <= MaxFaults
          /\ faults' = faults + nFail
          /\ run' = [run EXCEPT ![r] =
                       IF rn1.k > Len(rn1.items) THEN AfterFilter(rn1) ELSE rn1]
          /\ hist' = [hist EXCEPT !.lookupFault = @ \/ nFail > 0]
  /\ UNCHANGED <<posts, ledger, options, now, runsStarted, fetcher, proc, dedup, summ, search>>

\* Step 5: createPostsBatch inserts the post of one item; an insert that fails
\* returns null and the item is left out of createdPosts.
CreatePost(r) ==
  /\ run[r].pc = "post"
  /\ \E insertOk \in BOOLEAN :
       LET rn   == run[r]
           item == rn.itemsToPost[rn.i]
           row  == PostRow(NewPostId(rn.seq, rn.i), BOT_CONFIGS[rn.bot], item)
           post == IF insertOk THEN row.id ELSE NoPost
           rn1  == [rn EXCEPT !.i = @ + 1,
                      !.createdPosts = PushCreated(@, post, item),
                      !.nullPosts = IF insertOk THEN @ ELSE @ \cup {item}]
       IN /\ ~insertOk => faults < MaxFaults
          /\ faults' = IF insertOk THEN faults ELSE faults + 1
          /\ posts' = IF insertOk THEN posts \cup {row} ELSE posts
          /\ run' = [run EXCEPT ![r] =
                       IF rn1.i > Len(rn1.itemsToPost) THEN AfterCreatePosts(rn1)
                       ELSE rn1]
  /\ UNCHANGED <<ledger, options, now, runsStarted, hist, fetcher, proc, dedup, summ, search>>

\* Step 6: markItemAsProcessed for one created post; its result is not looked at.
MarkItem(r) ==
  /\ run[r].pc = "mark"
  /\ \E insertOk \in BOOLEAN :
       LET rn      == run[r]
           created == rn.createdPosts[rn.m]
           table   == markItemAsProcessed(ledger, BOT_CONFIGS[rn.bot].id,
                                          created.item, created.post, insertOk)
           rn1     == [rn EXCEPT !.m = @ + 1,
                         !.marked = IF table # ledger THEN @ + 1 ELSE @]
       IN /\ ~insertOk => faults < MaxFaults
          /\ faults' = IF insertOk THEN faults ELSE faults + 1
          /\ ledger' = table
          /\ run' = [run EXCEPT ![r] =
                       IF rn1.m > Len(rn1.createdPosts) THEN Succeed(rn1) ELSE rn1]
          /\ hist' = [hist EXCEPT !.insertFault = @ \/ ~insertOk]
  /\ UNCHANGED <<posts, options, now, runsStarted, fetcher, proc, dedup, summ, search>>

\* The process stops in the middle of a run: the invocation is gone, the
\* tables keep what was written.
Crash(r) ==
  /\ run[r].pc \in Active
  /\ faults < MaxFaults
  /\ faults' = faults + 1
  /\ run' = [run EXCEPT ![r] = IdleRun]
  /\ hist' = [hist EXCEPT !.crash = TRUE]
  /\ UNCHANGED <<posts, ledger, options, now, runsStarted, fetcher, proc, dedup, summ, search>>

Next ==
  \E r \in Runs :
     \/ \E b \in Bots : StartRun(r, b)
     \/ VerifyBotProfile(r)
     \/ Fetch(r)
     \/ FilterItem(r)
     \/ CreatePost(r)
     \/ MarkItem(r)
     \/ Crash(r)

Spec == Init /\ [][Next]_vars

(***************************************************************************)
(* filterItemsByDate on its own: it is called once with a list of raw      *)
(* items whose dates lie around the cutoff, are missing or do not parse.   *)
(***************************************************************************)
\* The length of the window in seconds.
WindowSeconds == fetchWindowMinutes * SecondsPerMinute

\* Raw items as rss-parser may return them: each date field may be absent.
RawItems ==
  [guid : {"a"}, link : {"la"},
   pubDate   : {NoDate, BadDate, Now0 - WindowSeconds + 1, Now0 - WindowSeconds,
                Now0 - WindowSeconds - 1},
   published : {NoDate, Now0 - WindowSeconds - 1},
   isoDate   : {NoDate, BadDate, Now0 - WindowSeconds + 1}]

RawLists == UNION {[1..n -> RawItems] : n \in 1..MaxItems}

\* Nothing of the pipeline has happened: empty tables, no invocation.
PipelineIdle ==
  /\ posts = {}
  /\ ledger = {}
  /\ run = [r \in Runs |-> IdleRun]
  /\ options = [dryRun |-> FALSE, processFeedsSeparately |-> TRUE,
                maxPostsPerRun |-> MaxCap, maxPostsPerFeed |-> PerFeedCap]
  /\ now = Now0
  /\ runsStarted = 0
  /\ faults = 0
  /\ hist = [overlap |-> FALSE, crash |-> FALSE, lookupFault |-> FALSE,
             insertFault |-> FALSE, dupPool |-> FALSE]

FetcherInit ==
  /\ PipelineIdle
  /\ proc = NoProcess
  /\ dedup = NoDedup
  /\ summ = NoSumm
  /\ search = NoSearch
  /\ fetcher \in [pc : {"called"}, items : RawLists,
                   minutesAgo : {fetchWindowMinutes}, result : {<<>>}]

\* filterItemsByDate(items, minutesAgo) returns.
FilterItemsByDate ==
  /\ fetcher.pc = "called"
  /\ fetcher' = [fetcher EXCEPT
                   !.pc = "returned",
                   !.result = filterItemsByDate(fetcher.items, now,
                                                fetcher.minutesAgo)]
  /\ UNCHANGED <<posts, ledger, run, options, now, runsStarted, faults, hist,
                 proc, dedup, summ, search>>

FetcherNext == FilterItemsByDate

FetcherSpec == FetcherInit /\ [][FetcherNext]_vars

(***************************************************************************)
(* index.js: main() either runs all bots once (runMultipleBots) and exits, *)
(* or registers the cleanup trigger and, through staggered timers, one     *)
(* cron trigger per bot; SIGINT and SIGTERM stop the registered bot        *)
(* triggers and exit.  A run of runBot is taken as a whole here: it starts *)
(* and, later, returns or throws.                                          *)
(***************************************************************************)
\* The clock shows the minute of the half hour and moves in steps that hit
\* every minute at which  */10  or  */15  fires.
MinutesPerTick == 5

ClockModulus == 30

Minutes == {m \in 0..(ClockModulus - 1) : m % MinutesPerTick = 0}

\* The cron expression  */n * * * *  matches the minute.
CronMatches(b, minute) == minute % BOT_CONFIGS[b].schedule = 0

\* The position of a bot in getAllBots().
IndexOf(b) == CHOOSE i \in 1..Len(BotOrder) : BotOrder[i] = b

\* What  await runBot(...)  can give runMultipleBots: the result record of a
\* run that ended Done or Failed, or an exception.
RunOutcomes == {"done", "failed", "throws"}

\* The entry runMultipleBots pushes to allResults.
BatchResult(b, outcome) ==
  [botId   |-> BOT_CONFIGS[b].id,
   success |-> outcome = "done",
   errors  |-> IF outcome = "done" THEN <<>>
               ELSE IF outcome = "failed" THEN <<"Bot profile not found">>
               ELSE <<"thrown">>,
   thrown  |-> outcome = "throws"]

\* The head of runMultipleBots' loop: the next bot's runBot is called, or
\* the loop is over.
CallBot(p, idx) ==
  IF idx > Len(BotOrder)
  THEN [p EXCEPT !.cycle.state = "done", !.cycle.idx = idx]
  ELSE [p EXCEPT !.cycle.state = "running", !.cycle.idx = idx,
                 !.active[BotOrder[idx]] = 1]

\* A loop that rethrows what runBot threw.
AfterRunBotRethrow(p, outcome) ==
  LET b  == BotOrder[p.cycle.idx]
      p1 == [p EXCEPT !.active[b] = 0]
  IN IF outcome = "throws"
     THEN [p1 EXCEPT !.cycle.state = "done"]
     ELSE [p1 EXCEPT !.cycle.allResults = Append(@, BatchResult(b, outcome)),
                     !.cycle.state = "sleep"]

\* runMultipleBots after  await runBot(...): the result is pushed and the
\* loop sleeps; an exception is caught, a failure entry is pushed and the
\* loop goes straight on to the next bot.
AfterRunBot(p, outcome) ==
  LET b  == BotOrder[p.cycle.idx]
      p1 == [p EXCEPT !.active[b] = 0,
                      !.cycle.allResults = Append(@, BatchResult(b, outcome))]
  IN IF outcome = "throws"
     THEN CallBot(p1, p.cycle.idx + 1)
     ELSE [p1 EXCEPT !.cycle.state = "sleep"]

\* The fields validateBotConfig requires.
RequiredFields ==
  {"id", "name", "username", "email", "user_id", "feeds", "schedule"}

\* What can be wrong with the configuration of one bot: required fields that
\* are missing, or a user_id without the prefix bot_.
DefectChoices ==
  {{}} \cup {{f} : f \in RequiredFields}
       \cup {{"prefix"}, {"feeds", "schedule"}, RequiredFields}

\* The entry of BOT_CONFIGS for bot b with the given defects.
LoadedConfig(b, defects) ==
  LET Field(f, value) == IF f \in defects THEN Null ELSE value
  IN [id |-> Field("id", BOT_CONFIGS[b].id),
      name |-> Field("name", "name"),
      username |-> Field("username", "username"),
      email |-> Field("email", "email"),
      user_id |-> IF "prefix" \in defects THEN "nobot"
                  ELSE Field("user_id", BOT_CONFIGS[b].user_id),
      feeds |-> IF "feeds" \in defects THEN <<>> ELSE BOT_CONFIGS[b].feeds,
      schedule |-> IF "schedule" \in defects THEN 0
                   ELSE BOT_CONFIGS[b].schedule]

\* BOT_CONFIGS as loaded, in configuration order.
LoadedConfigs(defects) ==
  [k \in 1..Len(BotOrder) |-> LoadedConfig(BotOrder[k], defects[BotOrder[k]])]

\* bot.user_id.startsWith('bot_')
StartsWithBotPrefix(userId) == userId \in {BOT_CONFIGS[b].user_id : b \in Bots}

\* validateBotConfig(bot): the list of errors, empty for a valid bot.
validateBotConfig(bot) ==
  LET Check(bad, message) == IF bad THEN <<message>> ELSE <<>>
  IN Check(bot.id = Null, "Bot ID is required")
     \o Check(bot.name = Null, "Bot name is required")
     \o Check(bot.username = Null, "Bot username is required")
     \o Check(bot.email = Null, "Bot email is required")
     \o Check(bot.user_id = Null, "Bot user_id is required")
     \o Check(bot.feeds = <<>>, "At least one RSS feed is required")
     \o Check(bot.schedule = 0, "Bot schedule is required")
     \o Check(bot.user_id # Null /\ ~StartsWithBotPrefix(bot.user_id),
              "user_id must start with 'bot_' prefix")

\* A validation that stops at the first invalid bot.
RECURSIVE validateUntilInvalid(_)
validateUntilInvalid(configs) ==
  IF configs = <<>> THEN <<>>
  ELSE IF validateBotConfig(Head(configs)) # <<>>
       THEN <<[bot |-> Head(configs).id,
               errors |-> validateBotConfig(Head(configs))]>>
       ELSE validateUntilInvalid(Tail(configs))

\* validateAllBots: allErrors, one entry {bot, errors} for every bot with
\* errors; it throws when the list is not empty.
RECURSIVE validateAllBots(_)
validateAllBots(configs) ==
  IF configs = <<>> THEN <<>>
  ELSE LET errors == validateBotConfig(Head(configs))
           rest   == validateAllBots(Tail(configs))
       IN IF errors # <<>>
          THEN <<[bot |-> Head(configs).id, errors |-> errors]>> \o rest
          ELSE rest

SystemInit ==
  /\ PipelineIdle
  /\ fetcher = NoCall
  /\ dedup = NoDedup
  /\ summ = NoSumm
  /\ search = NoSearch
  /\ \E c \in {"now", "schedule"}, t \in Minutes, ok \in BOOLEAN :
     \E d \in [Bots -> DefectChoices] :
       proc = [NoProcess EXCEPT !.pc = "main", !.command = c, !.clock = t,
                                !.envOk = ok, !.defects = d]

\* main(): validateEnvironment and validateAllBots end the process with
\* exit code 1; then the clients are initialized; "now" starts
\* runMultipleBots; without a command the cleanup trigger is registered (and
\* started) and scheduleAllBots sets one timer per bot.
Main ==
  /\ proc.pc = "main"
  /\ LET allErrors == validateAllBots(LoadedConfigs(proc.defects))
         p == [proc EXCEPT !.clients = TRUE]
     IN proc' = IF ~proc.envOk THEN [proc EXCEPT !.pc = "aborted"]
                ELSE IF allErrors # <<>>
                THEN [proc EXCEPT !.pc = "aborted", !.reported = allErrors]
                ELSE IF proc.command = "now"
                THEN CallBot([p EXCEPT !.pc = "batch"], 1)
                ELSE [p EXCEPT !.pc = "running", !.cleanupJob = "started",
                               !.timers = Range(BotOrder)]
  /\ UNCHANGED <<posts, ledger, run, options, now, runsStarted, faults, hist,
                 fetcher, dedup, summ, search>>

\* The staggered timer of a bot fires (after index * 30 s, so in configuration
\* order): scheduleBot creates the bot's trigger, stores it in scheduledJobs,
\* and the trigger is started.
TimerFires(b) ==
  /\ proc.pc = "running"
  /\ b \in proc.timers
  /\ \A c \in proc.timers : IndexOf(b) <= IndexOf(c)
  /\ proc' = [proc EXCEPT !.timers = @ \ {b}, !.scheduledJobs[b] = "started"]
  /\ UNCHANGED <<posts, ledger, run, options, now, runsStarted, faults, hist,
                 fetcher, dedup, summ, search>>

\* The clock reaches the next minute; every started trigger whose expression
\* matches it calls runBot, which runs up to its first await.
Tick ==
  /\ proc.pc = "running"
  /\ LET minute   == (proc.clock + MinutesPerTick) % ClockModulus
         fires(b) == proc.scheduledJobs[b] = "started" /\ CronMatches(b, minute)
     IN /\ \A b \in Bots : fires(b) => proc.active[b] < MaxOverlap
        /\ proc' = [proc EXCEPT
                      !.clock = minute,
                      !.active = [b \in Bots |->
                                    IF fires(b) THEN @[b] + 1 ELSE @[b]]]
  /\ UNCHANGED <<posts, ledger, run, options, now, runsStarted, faults, hist,
                 fetcher, dedup, summ, search>>

\* A run that a trigger started returns (or throws into the callback's catch).
RunBotReturns(b) ==
  /\ proc.pc = "running"
  /\ proc.active[b] > 0
  /\ proc' = [proc EXCEPT !.active[b] = @ - 1]
  /\ UNCHANGED <<posts, ledger, run, options, now, runsStarted, faults, hist,
                 fetcher, dedup, summ, search>>

\* The run that runMultipleBots awaits returns or throws.
BatchRunReturns ==
  /\ proc.pc = "batch"
  /\ proc.cycle.state = "running"
  /\ \E outcome \in RunOutcomes : proc' = AfterRunBot(proc, outcome)
  /\ UNCHANGED <<posts, ledger, run, options, now, runsStarted, faults, hist,
                 fetcher, dedup, summ, search>>

\* await sleep(2000) is over: the loop goes on.
BatchSleepOver ==
  /\ proc.pc = "batch"
  /\ proc.cycle.state = "sleep"
  /\ proc' = CallBot(proc, proc.cycle.idx + 1)
  /\ UNCHANGED <<posts, ledger, run, options, now, runsStarted, faults, hist,
                 fetcher, dedup, summ, search>>

\* runMultipleBots has returned allResults; main() calls process.exit(0).
BatchDone ==
  /\ proc.pc = "batch"
  /\ proc.cycle.state = "done"
  /\ proc' = [proc EXCEPT !.pc = "exited"]
  /\ UNCHANGED <<posts, ledger, run, options, now, runsStarted, faults, hist,
                 fetcher, dedup, summ, search>>

\* SIGINT or SIGTERM: every trigger in scheduledJobs is stopped, then
\* process.exit(0); runs in progress and pending timers end with the process.
Shutdown ==
  /\ proc.pc \in {"batch", "running"}
  /\ proc' = [proc EXCEPT
                !.pc = "exited",
                !.scheduledJobs = [b \in Bots |->
                                     IF @[b] = "none" THEN "none" ELSE "stopped"],
                !.active = [b \in Bots |-> 0]]
  /\ UNCHANGED <<posts, ledger, run, options, now, runsStarted, faults, hist,
                 fetcher, dedup, summ, search>>

SystemNext ==
  \/ Main
  \/ \E b \in Bots : TimerFires(b)
  \/ Tick
  \/ \E b \in Bots : RunBotReturns(b)
  \/ BatchRunReturns
  \/ BatchSleepOver
  \/ BatchDone
  \/ Shutdown

SystemSpec == SystemInit /\ [][SystemNext]_vars

(***************************************************************************)
(* One bot under its cron trigger: the trigger fires every schedule        *)
(* minutes, each firing calls runBot, and a firing finds the run of the    *)
(* firing before it returned.  Every external call fails MaxFaults times   *)
(* at most, so that the stores accept the writes in the end.  After        *)
(* MaxFirings firings every item of the feeds is older than the fetch      *)
(* window for good, and the time and the run number are no longer counted. *)
(***************************************************************************)
RecurringInit ==
  /\ posts = {}
  /\ ledger = {}
  /\ run = [r \in Runs |-> IdleRun]
  /\ options \in [dryRun : {FALSE}, processFeedsSeparately : BOOLEAN,
                  maxPostsPerRun : 1..MaxCap, maxPostsPerFeed : {PerFeedCap}]
  /\ now = Now0
  /\ runsStarted = 0
  /\ faults = 0
  /\ hist = [overlap |-> FALSE, crash |-> FALSE, lookupFault |-> FALSE,
             insertFault |-> FALSE, dupPool |-> FALSE]
  /\ fetcher = NoCall
  /\ proc = NoProcess
  /\ dedup = NoDedup
  /\ summ = NoSumm
  /\ search = NoSearch

\* cron.schedule(botConfig.schedule, () => runBot(...)): the first firing is
\* at Now0, each later one schedule minutes after the one before.
Firing(b) ==
  /\ run[1].pc \notin Active
  /\ runsStarted > 0 => b = run[1].bot
  /\ run' = [run EXCEPT ![1] =
               [IdleRun EXCEPT !.pc = "verify", !.bot = b,
                               !.seq = Min(runsStarted + 1, MaxFirings)]]
  /\ runsStarted' = Min(runsStarted + 1, MaxFirings)
  /\ now' = IF runsStarted = 0 \/ runsStarted >= MaxFirings THEN now
            ELSE now + BOT_CONFIGS[b].schedule * SecondsPerMinute
  /\ UNCHANGED <<posts, ledger, options, faults, hist, fetcher, proc, dedup,
                 summ, search>>

RecurringNext ==
  \/ \E b \in Bots : Firing(b)
  \/ VerifyBotProfile(1)
  \/ Fetch(1)
  \/ FilterItem(1)
  \/ CreatePost(1)
  \/ MarkItem(1)

\* The trigger keeps firing and every call of a run returns.
RecurringSpec ==
  RecurringInit /\ [][RecurringNext]_vars /\ WF_vars(RecurringNext)

(***************************************************************************)
(* deduplicator.js on its own: one use of filterUnprocessedItems, two calls *)
(* of markItemAsProcessed, or two calls of cleanupOldItems, over a ledger   *)
(* table that satisfies the two uniqueness constraints.                     *)
(***************************************************************************)
\* cleanupOldItems(supabase, 30) of main and scheduleCleanup
RetentionDays == 30

\* The bot whose items are looked up and marked.
DedupBot == "botA"

\* Items as the deduplicator reads them: a guid and a link.
DedupItems == [guid : {"ga", "gb"}, link : {"la", "lb"}]

\* Item lists of at most MaxBatch items.
DedupLists == UNION {[1..n -> DedupItems] : n \in 0..MaxBatch}

\* The lookups that can fail for one item of a batch.
LookupFaults == {"none", "guid", "link", "both"}

\* For each item of a batch the lookups that fail, MaxFaults items at most.
FaultLists(n) ==
  {f \in [1..n -> LookupFaults] :
     Cardinality({k \in 1..n : f[k] # "none"}) <= MaxFaults}

\* The times the rows of a table were written at: a second more than the
\* retention before the cleanup, exactly the retention, and a minute before.
ProcessedAts ==
  {Now0 - RetentionDays * SecondsPerDay - 1, Now0 - RetentionDays * SecondsPerDay,
   Now0 - SecondsPerMinute}

\* Rows written a minute ago by earlier runs of the two bots.
PlainRecords ==
  {[bot_id |-> b, item_guid |-> x.guid, item_link |-> x.link,
    created_post_id |-> NewPostId(0, 1), processed_at |-> Now0 - SecondsPerMinute] :
     b \in Bots, x \in DedupItems}

\* Tables the store accepts: no two rows of a bot share a guid or a link.
PlainTables ==
  {t \in SUBSET PlainRecords :
     \A rec \in t : ~UniqueViolation(t \ {rec}, rec)}

\* The tables with every choice of the times their rows were written at.
AgedTables ==
  UNION {{{[rec EXCEPT !.processed_at = f[rec]] : rec \in t} :
            f \in [t -> ProcessedAts]} : t \in PlainTables}

\* A call that has not been made: its arguments and no result yet.
DedupCall(op, items, failing, table) ==
  [pc |-> "first", op |-> op, botId |-> DedupBot, items |-> items,
   faults |-> failing, given |-> table, before |-> table, out |-> <<>>,
   returned |-> <<>>]

DedupInit ==
  /\ posts = {}
  /\ run = [r \in Runs |-> IdleRun]
  /\ options = [dryRun |-> FALSE, processFeedsSeparately |-> TRUE,
                maxPostsPerRun |-> MaxCap, maxPostsPerFeed |-> PerFeedCap]
  /\ now = Now0
  /\ runsStarted = 0
  /\ faults = 0
  /\ hist = [overlap |-> FALSE, crash |-> FALSE, lookupFault |-> FALSE,
             insertFault |-> FALSE, dupPool |-> FALSE]
  /\ fetcher = NoCall
  /\ proc = NoProcess
  /\ summ = NoSumm
  /\ search = NoSearch
  /\ \/ /\ ledger \in PlainTables
        /\ \E items \in DedupLists : \E f \in FaultLists(Len(items)) :
             dedup = DedupCall("filter", items, f, ledger)
     \/ /\ ledger \in PlainTables
        /\ \E items \in [1..2 -> DedupItems] :
           \E f \in [1..2 -> {"none", "error"}] :
             dedup = DedupCall("mark", items, f, ledger)
     \/ /\ ledger \in AgedTables
        /\ \E f \in [1..2 -> {"none", "error"}] :
             dedup = DedupCall("cleanup", <<>>, f, ledger)

\* filterUnprocessedItems(supabase, botId, items): the lookups of every item.
DedupFilter ==
  /\ dedup.op = "filter"
  /\ dedup.pc = "first"
  /\ dedup' = [dedup EXCEPT
                 !.pc = "done",
                 !.out = filterUnprocessedItems(ledger, dedup.botId,
                                                dedup.items, dedup.faults)]
  /\ UNCHANGED <<posts, ledger, run, options, now, runsStarted, faults, hist,
                 fetcher, proc, summ, search>>

\* markItemAsProcessed(supabase, botId, item, postId): the first call, then
\* the second.
DedupMark ==
  /\ dedup.op = "mark"
  /\ dedup.pc \in {"first", "second"}
  /\ LET k == IF dedup.pc = "first" THEN 1 ELSE 2
         item == dedup.items[k]
         insertOk == dedup.faults[k] = "none"
         postId == NewPostId(k, 1)
     IN /\ ledger' = markItemAsProcessed(ledger, dedup.botId, item, postId,
                                         insertOk)
        /\ dedup' = [dedup EXCEPT
                       !.pc = IF k = 1 THEN "second" ELSE "done",
                       !.before = ledger,
                       !.returned = Append(@,
                          markItemAsProcessedReturns(ledger, dedup.botId, item,
                                                     postId, insertOk))]
  /\ UNCHANGED <<posts, run, options, now, runsStarted, faults, hist,
                 fetcher, proc, summ, search>>

\* cleanupOldItems(supabase, 30): the first call, then a second right after.
DedupCleanup ==
  /\ dedup.op = "cleanup"
  /\ dedup.pc \in {"first", "second"}
  /\ LET k == IF dedup.pc = "first" THEN 1 ELSE 2
         result == cleanupOldItems(ledger, now, RetentionDays,
                                   dedup.faults[k] = "none")
     IN /\ ledger' = result.table
        /\ dedup' = [dedup EXCEPT
                       !.pc = IF k = 1 THEN "second" ELSE "done",
                       !.before = ledger,
                       !.returned = Append(@, result.deleted)]
  /\ UNCHANGED <<posts, run, options, now, runsStarted, faults, hist,
                 fetcher, proc, summ, search>>

DedupNext ==
  \/ DedupFilter
  \/ DedupMark
  \/ DedupCleanup

DedupSpec == DedupInit /\ [][DedupNext]_vars

(***************************************************************************)
(* summarizer.js.  A string is the sequence of its parts, each with its    *)
(* number of characters: substring cuts parts, it never invents one.       *)
(***************************************************************************)
\* fallback.substring(0, 280)
MaxSummaryLength == 280

\* The characters of ' - ' between title and link.
SeparatorLength == 3

\* The string of n characters of the text called part.
Str(part, n) == IF n = 0 THEN <<>> ELSE <<[part |-> part, len |-> n]>>

\* s.length
RECURSIVE StrLen(_)
StrLen(s) == IF s = <<>> THEN 0 ELSE Head(s).len + StrLen(Tail(s))

\* s.substring(0, n)
RECURSIVE Substring(_, _)
Substring(s, n) ==
  IF s = <<>> \/ n = 0 THEN <<>>
  ELSE IF Head(s).len <= n
       THEN <<Head(s)>> \o Substring(Tail(s), n - Head(s).len)
       ELSE <<[Head(s) EXCEPT !.len = n]>>

\* The text the model returns for an item when the call succeeds.
Generated == Str("generated", 200)

\* `${item.title} - ${item.link}`.substring(0, 280)
Fallback(item) ==
  Substring(item.title \o Str(" - ", SeparatorLength) \o item.link,
            MaxSummaryLength)

\* A generateSummary that lets the error of the call reach its caller.
generateSummaryRethrows(item, outcome) ==
  IF outcome.kind = "ok" THEN [raised |-> FALSE, summary |-> Generated]
  ELSE [raised |-> TRUE, summary |-> <<>>]

\* generateSummary: the text of the completion, or, when the call throws or
\* the completion is empty, the fallback; the catch block lets nothing out.
generateSummary(item, outcome) ==
  IF outcome.kind = "ok" THEN [raised |-> FALSE, summary |-> Generated]
  ELSE [raised |-> FALSE, summary |-> Fallback(item)]

\* A batch that leaves out the items that got the fallback.
AfterSummaryDropsFallback(s, result) ==
  LET n    == Len(s.items)
      item == s.items[s.i]
      kept == ~result.raised /\ result.summary = Generated
  IN [s EXCEPT
        !.inFlight = @ - 1,
        !.out = IF kept THEN Append(@, [title |-> item.title, link |-> item.link,
                                        summary |-> result.summary])
                ELSE @,
        !.pc = IF kept /\ s.i < n /\ s.delayMs > 0 THEN "sleep"
               ELSE IF s.i < n THEN "next" ELSE "done",
        !.i = IF kept /\ s.i < n /\ s.delayMs > 0 THEN @
              ELSE IF s.i < n THEN @ + 1 ELSE @]

\* generateSummariesBatch after await generateSummary: push {...item, summary}
\* and sleep unless the item is the last; catch: skip the item.
AfterSummary(s, result) ==
  LET n    == Len(s.items)
      item == s.items[s.i]
      kept == ~result.raised
  IN [s EXCEPT
        !.inFlight = @ - 1,
        !.out = IF kept THEN Append(@, [title |-> item.title, link |-> item.link,
                                        summary |-> result.summary])
                ELSE @,
        !.pc = IF kept /\ s.i < n /\ s.delayMs > 0 THEN "sleep"
               ELSE IF s.i < n THEN "next" ELSE "done",
        !.i = IF kept /\ s.i < n /\ s.delayMs > 0 THEN @
              ELSE IF s.i < n THEN @ + 1 ELSE @]

\* error.status === 401 || error.status === 403
IsAuthError(error) == error.status \in {401, 403}

\* A retry loop that treats every error alike.
AfterFailureRetriesAll(s, error) ==
  IF s.attempt < s.maxRetries
  THEN [s EXCEPT !.lastError = error, !.pc = "sleep"]
  ELSE [s EXCEPT !.lastError = error, !.pc = "thrown", !.thrown = error]

\* retryWithBackoff, catch (error): an error with status 401 or 403 is thrown
\* at once; any other is thrown after the last attempt and slept on before.
AfterFailure(s, error) ==
  IF IsAuthError(error)
  THEN [s EXCEPT !.lastError = error, !.pc = "thrown", !.thrown = error]
  ELSE IF s.attempt < s.maxRetries
       THEN [s EXCEPT !.lastError = error, !.pc = "sleep"]
       ELSE [s EXCEPT !.lastError = error, !.pc = "thrown", !.thrown = error]

(***************************************************************************)
(* The summarizer on its own: one generateSummary, one                     *)
(* generateSummariesBatch, or one retryWithBackoff.                        *)
(***************************************************************************)
\* Items with titles and links of lengths around the 280 characters.
SummItems ==
  {[title |-> Str("title", t), link |-> Str("link", l)] :
     t \in {10, 257, 258, 300}, l \in {20, 300}}

\* The items of the batches: two short ones and one with a long title.
BatchItems ==
  {[title |-> Str("title1", 10), link |-> Str("link1", 20)],
   [title |-> Str("title2", 12), link |-> Str("link2", 20)],
   [title |-> Str("title3", 300), link |-> Str("link3", 20)]}

\* The outcomes of one call of the service or of fn: a result, an empty
\* completion, or an error with its HTTP status.
CallOutcomes ==
  {[kind |-> "ok", status |-> 200], [kind |-> "empty", status |-> 200],
   [kind |-> "error", status |-> 500], [kind |-> "error", status |-> 401],
   [kind |-> "error", status |-> 403]}

\* The state of a call that has not started.
SummCall(op, items, delayMs, maxRetries) ==
  [pc |-> "next", op |-> op, items |-> items, delayMs |-> delayMs, i |-> 1,
   inFlight |-> 0, calls |-> [k \in 1..Len(items) |-> 0], outcomes |-> <<>>,
   out |-> <<>>, maxRetries |-> maxRetries, attempt |-> 1,
   lastError |-> Null, thrown |-> Null, value |-> Null]

SummInit ==
  /\ PipelineIdle
  /\ fetcher = NoCall
  /\ proc = NoProcess
  /\ dedup = NoDedup
  /\ search = NoSearch
  /\ \/ \E item \in SummItems : summ = SummCall("summary", <<item>>, 0, 0)
     \/ \E n \in 0..MaxBatch : \E items \in [1..n -> BatchItems] :
        \E delayMs \in {0, 1000} :
          summ = [SummCall("batch", items, delayMs, 0) EXCEPT
                    !.pc = IF n = 0 THEN "done" ELSE "next"]
     \/ \E maxRetries \in 0..MaxRetriesArg :
          summ = [SummCall("retry", <<>>, 1000, maxRetries) EXCEPT
                    !.pc = IF maxRetries = 0 THEN "thrown" ELSE "next"]
     \/ \E item \in BatchItems : \E maxRetries \in 1..MaxRetriesArg :
          summ = SummCall("withRetry", <<item>>, 1000, maxRetries)

\* generateSummary(openai, item, customPrompt): the call and its result.
GenerateSummary ==
  /\ summ.op = "summary"
  /\ summ.pc = "next"
  /\ \E outcome \in CallOutcomes :
       summ' = [summ EXCEPT !.pc = "done",
                            !.calls[1] = 1,
                            !.outcomes = <<outcome>>,
                            !.out = <<generateSummary(summ.items[1], outcome)>>]
  /\ UNCHANGED <<posts, ledger, run, options, now, runsStarted, faults, hist,
                 fetcher, proc, dedup, search>>

\* generateSummariesBatch: await generateSummary(openai, items[i], ...) starts.
BatchCall ==
  /\ summ.op = "batch"
  /\ summ.pc = "next"
  /\ summ' = [summ EXCEPT !.pc = "await", !.inFlight = @ + 1,
                          !.calls[summ.i] = @ + 1]
  /\ UNCHANGED <<posts, ledger, run, options, now, runsStarted, faults, hist,
                 fetcher, proc, dedup, search>>

\* generateSummariesBatch: generateSummary returns (or throws).
BatchReturn ==
  /\ summ.op = "batch"
  /\ summ.pc = "await"
  /\ \E outcome \in CallOutcomes :
       summ' = AfterSummary([summ EXCEPT !.outcomes = Append(@, outcome)],
                            generateSummary(summ.items[summ.i], outcome))
  /\ UNCHANGED <<posts, ledger, run, options, now, runsStarted, faults, hist,
                 fetcher, proc, dedup, search>>

\* generateSummariesBatch: await sleep(delayMs) is over.
BatchDelayOver ==
  /\ summ.op = "batch"
  /\ summ.pc = "sleep"
  /\ summ' = [summ EXCEPT !.pc = "next", !.i = @ + 1]
  /\ UNCHANGED <<posts, ledger, run, options, now, runsStarted, faults, hist,
                 fetcher, proc, dedup, search>>

\* retryWithBackoff: await fn() starts.
RetryCall ==
  /\ summ.op \in {"retry", "withRetry"}
  /\ summ.pc = "next"
  /\ summ' = [summ EXCEPT !.pc = "await", !.inFlight = @ + 1]
  /\ UNCHANGED <<posts, ledger, run, options, now, runsStarted, faults, hist,
                 fetcher, proc, dedup, search>>

\* retryWithBackoff: fn returns (return await fn()) or throws (catch).
RetryReturn ==
  /\ summ.op = "retry"
  /\ summ.pc = "await"
  /\ \E outcome \in CallOutcomes \ {[kind |-> "empty", status |-> 200]} :
       LET s == [summ EXCEPT !.inFlight = @ - 1,
                             !.outcomes = Append(@, outcome)]
           error == [status |-> outcome.status, attempt |-> summ.attempt]
       IN summ' = IF outcome.kind = "ok"
                  THEN [s EXCEPT !.pc = "returned", !.value = summ.attempt]
                  ELSE AfterFailure(s, error)
  /\ UNCHANGED <<posts, ledger, run, options, now, runsStarted, faults, hist,
                 fetcher, proc, dedup, search>>

\* generateSummaryWithRetry: the fn of retryWithBackoff is generateSummary; it
\* returns what generateSummary returns and catches what it throws.
WithRetryReturn ==
  /\ summ.op = "withRetry"
  /\ summ.pc = "await"
  /\ \E outcome \in CallOutcomes :
       LET s == [summ EXCEPT !.inFlight = @ - 1,
                             !.outcomes = Append(@, outcome)]
           result == generateSummary(summ.items[1], outcome)
           error == [status |-> outcome.status, attempt |-> summ.attempt]
       IN summ' = IF result.raised THEN AfterFailure(s, error)
                  ELSE [s EXCEPT !.pc = "returned", !.value = result.summary]
  /\ UNCHANGED <<posts, ledger, run, options, now, runsStarted, faults, hist,
                 fetcher, proc, dedup, search>>

\* retryWithBackoff: await sleep(delayMs * attempt) is over; attempt++.
RetryDelayOver ==
  /\ summ.op \in {"retry", "withRetry"}
  /\ summ.pc = "sleep"
  /\ summ' = [summ EXCEPT !.pc = "next", !.attempt = @ + 1]
  /\ UNCHANGED <<posts, ledger, run, options, now, runsStarted, faults, hist,
                 fetcher, proc, dedup, search>>

SummNext ==
  \/ GenerateSummary
  \/ BatchCall
  \/ BatchReturn
  \/ BatchDelayOver
  \/ RetryCall
  \/ RetryReturn
  \/ WithRetryReturn
  \/ RetryDelayOver

SummarizerSpec == SummInit /\ [][SummNext]_vars

(***************************************************************************)
(* app/api/search-posts/route.ts: POST with its embedding cache, and GET.  *)
(* A query is a sequence of characters; the cache is the Map's keys in     *)
(* insertion order (a stored embedding is an array, which is truthy, so a  *)
(* key that is present is a hit whatever its value).                       *)
(***************************************************************************)
Requests == 1..MaxRequests

\* The query texts of the requests: empty, blank, one text in three spellings
\* that differ in case and in surrounding blanks, and three other texts.
Queries ==
  {<<>>, <<" ">>, <<"a">>, <<"A">>, <<" ", "A", " ">>, <<"b">>, <<"c">>, <<"d">>}

\* The request bodies: a query with a limit below, inside and above the range
\* (limit = 50 is also the default), and a body whose query is not a string.
Bodies ==
  [isString : {TRUE}, query : Queries, limit : {0, 50, 101}]
    \cup {[isString |-> FALSE, query |-> <<>>, limit |-> 50]}

\* String.prototype.toLowerCase
toLowerCase(q) == [i \in 1..Len(q) |-> IF q[i] = "A" THEN "a" ELSE q[i]]

RECURSIVE trimStart(_)
trimStart(q) == IF q # <<>> /\ Head(q) = " " THEN trimStart(Tail(q)) ELSE q

RECURSIVE trimEnd(_)
trimEnd(q) ==
  IF q # <<>> /\ q[Len(q)] = " " THEN trimEnd(SubSeq(q, 1, Len(q) - 1)) ELSE q

\* String.prototype.trim
trim(q) == trimEnd(trimStart(q))

\* const cacheKey = query.toLowerCase().trim()
CacheKey(query) == trim(toLowerCase(query))

\* !query || typeof query !== 'string' || query.trim().length === 0
InvalidQuery(body) ==
  \/ ~body.isString
  \/ Len(body.query) = 0
  \/ Len(trim(body.query)) = 0

\* limit < 1 || limit > 100
InvalidLimit(body) == body.limit < 1 \/ body.limit > 100

\* embeddingCache.get(cacheKey) finds an entry.
MapHas(cache, key) == \E i \in 1..Len(cache) : cache[i] = key

\* Map.prototype.set: a new key goes last, a key that is present keeps its place.
MapSet(cache, key) == IF MapHas(cache, key) THEN cache ELSE Append(cache, key)

\* A cache that stores without looking at its size.
StoreEmbeddingUnbounded(cache, key) ==
  [cache |-> MapSet(cache, key), firstKey |-> <<>>]

\* if (embeddingCache.size >= CACHE_MAX_SIZE) delete the first key of the Map;
\* embeddingCache.set(cacheKey, queryEmbedding).  firstKey holds the key that
\* was deleted, if one was.
StoreEmbedding(cache, key) ==
  LET full == Len(cache) >= CACHE_MAX_SIZE
      kept == IF full THEN Tail(cache) ELSE cache
  IN [cache |-> MapSet(kept, key),
      firstKey |-> IF full THEN <<Head(cache)>> ELSE <<>>]

\* No request in the slot.
IdleRequest ==
  [pc |-> "idle", cacheKey |-> <<>>, cached |-> FALSE, firstKey |-> <<>>,
   status |-> 0]

\* NextResponse.json(..., {status}): the handler has returned.
Respond(status, cached) ==
  [IdleRequest EXCEPT !.pc = "returned", !.status = status, !.cached = cached]

\* The module is loaded: the cache is empty and no request is in progress.
SearchInit ==
  /\ PipelineIdle
  /\ fetcher = NoCall
  /\ proc = NoProcess
  /\ dedup = NoDedup
  /\ summ = NoSumm
  /\ search = [pc |-> "serving", cache |-> <<>>,
               req |-> [s \in Requests |-> IdleRequest], cache_size |-> 0]

\* A POST arrives: the handler runs up to await request.json().
Receive(s) ==
  /\ search.pc = "serving"
  /\ search.req[s].pc \in {"idle", "returned"}
  /\ search' = [search EXCEPT !.req[s] = [IdleRequest EXCEPT !.pc = "json"]]
  /\ UNCHANGED <<posts, ledger, run, options, now, runsStarted, faults, hist,
                 fetcher, proc, dedup, summ>>

\* request.json() returns the body or throws: the query and the limit are
\* validated, the cache is looked up, and on a miss the handler awaits the
\* embedding.
JsonParsed(s) ==
  /\ search.pc = "serving"
  /\ search.req[s].pc = "json"
  /\ \/ search' = [search EXCEPT !.req[s] = Respond(500, FALSE)]
     \/ \E body \in Bodies :
          LET cacheKey == CacheKey(body.query)
          IN search' = [search EXCEPT !.req[s] =
               IF InvalidQuery(body) \/ InvalidLimit(body) THEN Respond(400, FALSE)
               ELSE IF MapHas(search.cache, cacheKey)
                    THEN [@ EXCEPT !.pc = "rpc", !.cached = TRUE]
                    ELSE [@ EXCEPT !.pc = "embedding", !.cacheKey = cacheKey]]
  /\ UNCHANGED <<posts, ledger, run, options, now, runsStarted, faults, hist,
                 fetcher, proc, dedup, summ>>

\* openai.embeddings.create returns: the embedding is stored and the handler
\* goes on to the similarity search; a throw ends in the catch with 500.
EmbeddingReturns(s) ==
  /\ search.pc = "serving"
  /\ search.req[s].pc = "embedding"
  /\ \E ok \in BOOLEAN :
       LET stored == StoreEmbedding(search.cache, search.req[s].cacheKey)
       IN search' = IF ok
                    THEN [search EXCEPT !.cache = stored.cache,
                                        !.req[s].pc = "rpc",
                                        !.req[s].cacheKey = <<>>,
                                        !.req[s].firstKey = stored.firstKey]
                    ELSE [search EXCEPT !.req[s] = Respond(500, FALSE)]
  /\ UNCHANGED <<posts, ledger, run, options, now, runsStarted, faults, hist,
                 fetcher, proc, dedup, summ>>

\* supabase.rpc('match_posts') returns: 200 with the posts, 500 on an error
\* or a throw.
RpcReturns(s) ==
  /\ search.pc = "serving"
  /\ search.req[s].pc = "rpc"
  /\ \E ok \in BOOLEAN :
       search' = [search EXCEPT !.req[s] =
                    IF ok THEN Respond(200, search.req[s].cached)
                    ELSE Respond(500, FALSE)]
  /\ UNCHANGED <<posts, ledger, run, options, now, runsStarted, faults, hist,
                 fetcher, proc, dedup, summ>>

\* GET: the cache statistics.
Get ==
  /\ search.pc = "serving"
  /\ search' = [search EXCEPT !.cache_size = Len(search.cache)]
  /\ UNCHANGED <<posts, ledger, run, options, now, runsStarted, faults, hist,
                 fetcher, proc, dedup, summ>>

SearchNext ==
  \/ \E s \in Requests : Receive(s)
  \/ \E s \in Requests : JsonParsed(s)
  \/ \E s \in Requests : EmbeddingReturns(s)
  \/ \E s \in Requests : RpcReturns(s)
  \/ Get

SearchSpec == SearchInit /\ [][SearchNext]_vars

(***************************************************************************)
(* Vocabulary of the properties.                                           *)
(***************************************************************************)
BotOf(r) == BOT_CONFIGS[run[r].bot].id

\* The user_id under which bot botId posts.
UserIdOf(botId) == BOT_CONFIGS[botId].user_id

Started(r) == run[r].pc # "idle"

\* The invocation has its selection: it is publishing, recording or has returned.
Selected(r) == run[r].pc \in {"post", "mark", "done"}

\* Rows written by invocation number n.
PostsOfRun(n) == {p \in posts : p.id[1] = n}

RecordsOfRun(n) == {rec \in ledger : rec.created_post_id[1] = n}

\* Posts a bot made from an item (the same guid and link).
PostsFor(botId, item) ==
  {p \in posts : p.user_id = UserIdOf(botId) /\ p.guid = item.guid
                   /\ p.rss_source_url = item.link}

\* No bot has two posts made from items with the same guid or the same link.
NoItemPostedTwice ==
  \A p, q \in posts :
     (p # q /\ p.user_id = q.user_id)
        => (p.guid # q.guid /\ p.rss_source_url # q.rss_source_url)

(***************************************************************************)
(* C1: when two runs of the same bot overlap and both see the same item as *)
(* unprocessed, at most one post is created for that item.  (Every lookup  *)
(* and insert succeeding and no process stopping, two runs see the same    *)
(* item as new only if they overlap.)                                      *)
(***************************************************************************)
C1_OverlapAtMostOnePost ==
  (~hist.lookupFault /\ ~hist.insertFault /\ ~hist.crash)
    => \A r1, r2 \in Runs :
         (r1 # r2 /\ Started(r1) /\ Started(r2) /\ run[r1].bot = run[r2].bot)
           => \A x \in Range(run[r1].seenNew) \cap Range(run[r2].seenNew) :
                Cardinality(PostsFor(BotOf(r1), x)) <= 1

(***************************************************************************)
(* C2: deduplication is crash-safe: runs of a bot that do not overlap,     *)
(* whose lookups and inserts succeed and whose pools hold no duplicates,   *)
(* never publish an item twice, also when the process stopped in the       *)
(* middle of a run and the bot was run again.                              *)
(***************************************************************************)
C2_CrashSafe ==
  (~hist.overlap /\ ~hist.lookupFault /\ ~hist.insertFault /\ ~hist.dupPool)
    => NoItemPostedTwice

\* No overlap, no stop, no failed lookup or insert, no duplicates in a pool.
CleanHistory ==
  /\ ~hist.overlap /\ ~hist.crash
  /\ ~hist.lookupFault /\ ~hist.insertFault
  /\ ~hist.dupPool

(***************************************************************************)
(* C3: over completed, non-overlapping runs of a bot whose ledger lookups  *)
(* and inserts succeed and whose pools hold no two items with the same     *)
(* guid or link, an item is published at most once: an item a run lets     *)
(* through its filter shares its guid and its link with no post that an    *)
(* earlier run of the bot made.                                            *)
(***************************************************************************)
C3_PublishedAtMostOnce ==
  CleanHistory =>
    /\ NoItemPostedTwice
    /\ \A r \in Runs : \A x \in Range(run[r].seenNew) : \A p \in posts :
         (p.user_id = UserIdOf(BotOf(r)) /\ (p.guid = x.guid \/ p.rss_source_url = x.link))
            => p.id[1] >= run[r].seq

\* A second run has fetched an item that the first run published, and has
\* filtered it out.
C3_Witness ==
  /\ CleanHistory
  /\ \E r \in Runs :
       /\ run[r].pc = "done" /\ run[r].seq = 2
       /\ \E x \in Range(run[r].pool) :
            /\ x \notin Range(run[r].seenNew)
            /\ \E p \in PostsFor(BotOf(r), x) : p.id[1] = 1

(***************************************************************************)
(* C4: in every reachable state the ledger holds at most one record per    *)
(* (bot, guid) and at most one per (bot, link).                            *)
(***************************************************************************)
C4_LedgerUnique ==
  \A a, b \in ledger :
     (a # b /\ a.bot_id = b.bot_id)
        => (a.item_guid # b.item_guid /\ a.item_link # b.item_link)

\* A run has returned after markItemAsProcessed, with no insert error, left the
\* ledger without the row of one of its posts: the constraint refused it.
C4_Witness ==
  /\ ~hist.insertFault
  /\ \E r \in Runs :
       /\ run[r].pc = "done"
       /\ \E j \in 1..Len(run[r].createdPosts) :
            LET c == run[r].createdPosts[j]
            IN /\ LedgerRecord(BotOf(r), c.item, c.post) \notin ledger
               /\ \E rec \in ledger :
                    /\ rec.bot_id = BotOf(r)
                    /\ (rec.item_guid = c.item.guid \/ rec.item_link = c.item.link)

(***************************************************************************)
(* C5: every ledger record belongs to a post that was created for that     *)
(* item by that bot and carries that post's id; an item whose publish      *)
(* returned null, an item beyond the per-run cap and any item of a dry run *)
(* or a failed run has no record written for it.                           *)
(***************************************************************************)
C5_LedgerRecordHasPost ==
  /\ \A rec \in ledger : \E p \in posts :
       /\ p.id = rec.created_post_id
       /\ p.user_id = UserIdOf(rec.bot_id)
       /\ p.guid = rec.item_guid
       /\ p.rss_source_url = rec.item_link
  /\ options.dryRun => ledger = {}
  /\ \A r \in Runs :
       /\ run[r].pc = "failed" => RecordsOfRun(run[r].seq) = {}
       /\ \A rec \in RecordsOfRun(run[r].seq) :
            /\ \E j \in 1..Len(run[r].createdPosts) :
                 /\ run[r].createdPosts[j].post = rec.created_post_id
                 /\ run[r].createdPosts[j].item.guid = rec.item_guid
            /\ \A x \in run[r].nullPosts :
                 ~(x.guid = rec.item_guid /\ x.link = rec.item_link)

\* A run has returned with one publish failed and another one recorded.
C5_Witness ==
  \E r \in Runs :
     /\ run[r].pc = "done"
     /\ run[r].nullPosts # {}
     /\ RecordsOfRun(run[r].seq) # {}

(***************************************************************************)
(* C6: when a run that is not a dry run ends in Done (success = true),     *)
(* every item it created a post for has a ledger record of (bot, item)     *)
(* that holds the created post's id.  (Stated for runs that overlap no     *)
(* other run of the bot and whose pool holds no duplicates.)               *)
(***************************************************************************)
C6_DoneRunRecorded ==
  (~hist.overlap /\ ~hist.dupPool) =>
    \A r \in Runs :
       (run[r].pc = "done" /\ run[r].results.success /\ ~options.dryRun)
         => \A j \in 1..Len(run[r].createdPosts) :
              LedgerRecord(BotOf(r), run[r].createdPosts[j].item,
                           run[r].createdPosts[j].post) \in ledger

(***************************************************************************)
(* C7: if publishing item X failed in a run, X is absent from the ledger   *)
(* after that run and the next run of the bot over the same feed contents  *)
(* selects X again and attempts to publish it.  (Stated for runs that do   *)
(* not overlap and whose ledger lookups succeed.)                          *)
(***************************************************************************)
C7_FailedPublishRetried ==
  (~hist.overlap /\ ~hist.lookupFault) =>
    \A r1, r2 \in Runs :
       ( /\ run[r1].pc = "done" /\ Selected(r2)
         /\ run[r1].bot = run[r2].bot
         /\ run[r2].seq = run[r1].seq + 1
         /\ run[r2].pool = run[r1].pool )
         => \A x \in run[r1].nullPosts :
              /\ x \in Range(run[r2].seenNew)
              /\ x \in Range(run[r2].itemsToPost)

\* The positions of the selection that hold items of one source.
SelectedFrom(r, feedUrl) ==
  {j \in 1..Len(run[r].itemsToPost) : run[r].itemsToPost[j].feedUrl = feedUrl}

(***************************************************************************)
(* C8: in per-source mode a run selects at most maxPostsPerFeed items from *)
(* any one source.                                                         *)
(***************************************************************************)
C8_PerSourceCap ==
  options.processFeedsSeparately =>
    \A r \in Runs : \A f \in FeedUrls :
       Selected(r) => Cardinality(SelectedFrom(r, f)) <= options.maxPostsPerFeed

InWindow(item) ==
  PubDateOf(item) \notin {NoDate, BadDate}
    /\ now - PubDateOf(item) <= fetchWindowMinutes * SecondsPerMinute

RecentOf(feedUrl) ==
  {normalizeItem(FeedContent[feedUrl][j], feedUrl) :
     j \in {n \in 1..Len(FeedContent[feedUrl]) : InWindow(FeedContent[feedUrl][n])}}

FetchedFor(b) == UNION {RecentOf(f) : f \in Range(BOT_CONFIGS[b].feeds)}

\* The raw items of a bot's sources that the window leaves out.
OutsideWindowFor(b) ==
  UNION {{raw \in Range(FeedContent[f]) : ~InWindow(raw)} :
           f \in Range(BOT_CONFIGS[b].feeds)}

(***************************************************************************)
(* C11: a single run that starts from an empty ledger, with no failure of  *)
(* any external call, creates exactly one post per fetched in-window item  *)
(* (up to the per-run cap) and exactly one ledger record per such post; an *)
(* item outside the window gets no post and no ledger record.              *)
(***************************************************************************)
C11_OnePostOneRecord ==
  \A r \in Runs :
     (run[r].pc = "done" /\ runsStarted = 1 /\ faults = 0 /\ ~options.dryRun) =>
       LET made    == PostsOfRun(run[r].seq)
           fetched == FetchedFor(run[r].bot)
       IN /\ Cardinality(made) = Min(options.maxPostsPerRun, Cardinality(fetched))
          /\ \A p \in made : \E x \in fetched :
               p.guid = x.guid /\ p.rss_source_url = x.link
          /\ \A x \in fetched : Cardinality(PostsFor(BotOf(r), x)) <= 1
          /\ \A p \in made :
               Cardinality({rec \in ledger : rec.created_post_id = p.id}) = 1
          /\ Cardinality(ledger) = Cardinality(made)
          /\ \A raw \in OutsideWindowFor(run[r].bot) :
               /\ \A p \in posts : p.rss_source_url # raw.link
               /\ \A rec \in ledger : rec.item_link # raw.link

(***************************************************************************)
(* C12: a run whose filter lets no item through (no source gave an         *)
(* in-window item, or every in-window item is in the ledger) returns with  *)
(* success = true and postsCreated = 0, having inserted no post and no     *)
(* ledger record.                                                          *)
(***************************************************************************)
C12_ZeroNewNoEffect ==
  \A r \in Runs :
     (Selected(r) /\ run[r].seenNew = <<>>) =>
       /\ run[r].pc = "done"
       /\ run[r].results.success
       /\ run[r].results.postsCreated = 0
       /\ PostsOfRun(run[r].seq) = {}
       /\ RecordsOfRun(run[r].seq) = {}

\* A second run found every item of its pool in the ledger and returned,
\* leaving the tables as the first run left them.
C12_Witness ==
  \E r \in Runs :
     /\ run[r].pc = "done" /\ run[r].seq = 2
     /\ run[r].pool # <<>> /\ run[r].seenNew = <<>>
     /\ run[r].results.success
     /\ posts # {} /\ posts = PostsOfRun(1)
     /\ ledger # {} /\ ledger = RecordsOfRun(1)

(***************************************************************************)
(* C13: a run whose profile check fails ends Failed with success = false   *)
(* and the message in its errors list, having fetched no feed, inserted no *)
(* post and written no ledger record; a run has an error recorded only if  *)
(* it ended Failed, and no run has a post before its profile check is over.*)
(***************************************************************************)
C13_ProfileMissingFails ==
  \A r \in Runs :
     /\ run[r].results.errors # <<>> => run[r].pc = "failed"
     /\ run[r].pc = "failed" =>
          /\ ~run[r].results.success
          /\ run[r].results.errors = <<"Bot profile not found">>
          /\ run[r].pool = <<>> /\ run[r].failed = {}
          /\ run[r].results.itemsFetched = 0
          /\ PostsOfRun(run[r].seq) = {}
          /\ RecordsOfRun(run[r].seq) = {}
     /\ run[r].pc \in {"verify", "fetch", "filter"} => PostsOfRun(run[r].seq) = {}

\* A run ended Failed after an earlier run of the same bot had published: the
\* tables hold the earlier run's rows only.
C13_Witness ==
  \E r \in Runs :
     /\ run[r].pc = "failed" /\ run[r].seq = 2
     /\ posts # {} /\ PostsOfRun(2) = {}
     /\ \E q \in Runs : run[q].pc = "done" /\ run[q].bot = run[r].bot

(***************************************************************************)
(* C14: with dryRun = true a run checks the profile, fetches and filters   *)
(* as usual (its pool and its selection are those of a real run over an    *)
(* empty ledger) but inserts no post and writes no ledger record: both     *)
(* tables stay empty and postsCreated is 0.                                *)
(***************************************************************************)
C14_DryRunNoWrites ==
  options.dryRun =>
    /\ posts = {} /\ ledger = {}
    /\ \A r \in Runs :
         /\ run[r].results.postsCreated = 0
         /\ run[r].createdPosts = <<>>
         /\ run[r].pc # "post" /\ run[r].pc # "mark"
         /\ run[r].pc = "done" =>
              /\ Range(run[r].pool) =
                   UNION {RecentOf(f) :
                            f \in Range(BOT_CONFIGS[run[r].bot].feeds) \ run[r].failed}
              /\ (~hist.lookupFault => run[r].seenNew = run[r].pool)
              /\ run[r].results.itemsNew = Len(run[r].seenNew)
              /\ run[r].itemsToPost =
                   SubSeq(run[r].seenNew, 1,
                          Min(options.maxPostsPerRun, Len(run[r].seenNew)))

\* The second dry run of a bot selected the items the first one had selected.
C14_Witness ==
  /\ options.dryRun
  /\ \E r, q \in Runs :
       /\ run[r].pc = "done" /\ run[r].seq = 2
       /\ run[q].pc = "done" /\ run[q].seq = 1
       /\ run[r].itemsToPost # <<>>
       /\ run[r].itemsToPost = run[q].itemsToPost

\* The bots that have a run between its start and its end.
BotsRunning == {b \in Bots : proc.active[b] > 0}

(***************************************************************************)
(* C15: runMultipleBots runs the bots in configuration order, one at a     *)
(* time: a bot's run is in progress only when the results of all bots      *)
(* before it have been pushed; allResults holds one entry per bot called,  *)
(* in order, and one per configured bot when the loop is over, also when a *)
(* run failed or threw.                                                    *)
(***************************************************************************)
C15_BatchSequential ==
  proc.command = "now" =>
    LET c == proc.cycle
    IN /\ \A i \in 1..Len(c.allResults) :
            c.allResults[i].botId = BOT_CONFIGS[BotOrder[i]].id
       /\ Cardinality(BotsRunning) <= 1
       /\ \A b \in BotsRunning :
            /\ c.state = "running"
            /\ b = BotOrder[c.idx]
            /\ proc.active[b] = 1
            /\ Len(c.allResults) = c.idx - 1
       /\ c.state = "sleep" => Len(c.allResults) = c.idx
       /\ c.state = "done" => Len(c.allResults) = Len(BotOrder)

\* The loop is over: the first bot's run threw, the second bot was still run
\* and returned a result.
C15_Witness ==
  /\ proc.command = "now"
  /\ proc.cycle.state = "done"
  /\ Len(proc.cycle.allResults) = Len(BotOrder)
  /\ proc.cycle.allResults[1].thrown
  /\ ~proc.cycle.allResults[1].success
  /\ proc.cycle.allResults[Len(BotOrder)].success

(***************************************************************************)
(* C16: runs of different bots never execute concurrently: at any time at  *)
(* most one bot has a run between its start and its end, in the one-shot   *)
(* multi-bot invocation and under the bots' own cron triggers.             *)
(***************************************************************************)
C16_OneBotAtATime == Cardinality(BotsRunning) <= 1

(***************************************************************************)
(* C17: when the process has exited on SIGINT or SIGTERM, every trigger    *)
(* that was registered (each bot's trigger and the cleanup trigger) has    *)
(* been stopped, and no bot trigger is left started.                       *)
(***************************************************************************)
C17_AllTriggersStopped ==
  proc.pc = "exited" =>
    /\ \A b \in Bots : proc.scheduledJobs[b] \in {"none", "stopped"}
    /\ proc.cleanupJob \in {"none", "stopped"}

(***************************************************************************)
(* Vocabulary of the claims about filterItemsByDate.                       *)
(***************************************************************************)
\* The item has a publication date and the date parses.
Dated(item) == PubDateOf(item) # NoDate /\ PubDateOf(item) # BadDate

\* Seconds between the item's publication and the call.
Age(item) == now - PubDateOf(item)

Kept(item) == item \in Range(fetcher.result)

(***************************************************************************)
(* C18 (as the code has it): filterItemsByDate keeps a dated item exactly  *)
(* when its age at filter time is at most the window: with a window of 60  *)
(* minutes an item published exactly 60m00s ago is kept, one published     *)
(* 60m01s ago is dropped.                                                  *)
(***************************************************************************)
C18_WindowInclusive ==
  fetcher.pc = "returned" =>
    \A j \in 1..Len(fetcher.items) :
       Dated(fetcher.items[j]) =>
         (Kept(fetcher.items[j])
            <=> Age(fetcher.items[j]) <= fetcher.minutesAgo * SecondsPerMinute)

\* An item published exactly one window ago was kept while an item one second
\* older was dropped.
C18_Witness ==
  /\ fetcher.pc = "returned"
  /\ \E x \in Range(fetcher.items) :
       Dated(x) /\ Age(x) = WindowSeconds /\ Kept(x)
  /\ \E y \in Range(fetcher.items) :
       Dated(y) /\ Age(y) = WindowSeconds + 1 /\ ~Kept(y)

(***************************************************************************)
(* C18 (as stated): filterItemsByDate keeps an item only when its age at   *)
(* filter time is strictly less than the window, so an item published      *)
(* exactly 60m00s ago is excluded.                                         *)
(***************************************************************************)
C18_WindowStrict ==
  fetcher.pc = "returned" =>
    \A j \in 1..Len(fetcher.items) :
       Kept(fetcher.items[j])
         => Age(fetcher.items[j]) < fetcher.minutesAgo * SecondsPerMinute

(***************************************************************************)
(* C19: filterItemsByDate drops every item that has none of the date       *)
(* fields pubDate, published, isoDate, or whose date does not parse; the   *)
(* call returns, and the other items of the list are still evaluated:      *)
(* every dated item inside the window is in the result, in input order.    *)
(***************************************************************************)
C19_UndatedExcluded ==
  fetcher.pc = "returned" =>
    /\ \A x \in Range(fetcher.result) :
         /\ ~(x.pubDate = NoDate /\ x.published = NoDate /\ x.isoDate = NoDate)
         /\ PubDateOf(x) # BadDate
    /\ LET inWindow(x) == Dated(x) /\ Age(x) <= WindowSeconds
       IN fetcher.result = SelectSeq(fetcher.items, inWindow)

\* The first item of the list has no date field or a date that does not
\* parse, and the last item of the list was kept.
C19_Witness ==
  /\ fetcher.pc = "returned"
  /\ Len(fetcher.items) = MaxItems
  /\ LET first == fetcher.items[1]
     IN (first.pubDate = NoDate /\ first.published = NoDate
           /\ first.isoDate = NoDate)
        \/ PubDateOf(first) = BadDate
  /\ Kept(fetcher.items[MaxItems])

(***************************************************************************)
(* C20: a source whose fetch fails yields success = false with a message   *)
(* and no items; the pool of the run still holds every in-window item of   *)
(* every other source of the bot and nothing else, and the run does not    *)
(* end Failed because of it.                                               *)
(***************************************************************************)
C20_FailedSourceSkipped ==
  /\ \A f \in FeedUrls :
       /\ ~fetchFeed(f, {f}).success
       /\ fetchFeed(f, {f}).error # Null
       /\ fetchFeed(f, {f}).items = <<>>
       /\ fetchFeed(f, {}).success
  /\ \A r \in Runs :
       /\ run[r].pc \in {"filter", "post", "mark", "done"} =>
            Range(run[r].pool) =
              UNION {RecentOf(f) :
                       f \in Range(BOT_CONFIGS[run[r].bot].feeds) \ run[r].failed}
       /\ run[r].failed # {} =>
            /\ run[r].pc # "failed"
            /\ run[r].results.errors = <<>>
            /\ run[r].pc = "done" => run[r].results.success

\* One of two sources failed; the run published the item of the other source
\* and returned with success.
C20_Witness ==
  \E r \in Runs :
     /\ run[r].pc = "done" /\ run[r].results.success
     /\ run[r].failed = {"f1"}
     /\ \E p \in PostsOfRun(run[r].seq) : p.guid = "g3"

(***************************************************************************)
(* Vocabulary of the claims about deduplicator.js on its own.              *)
(***************************************************************************)
\* The table holds a row of the bot with the guid of the item.
GuidRecorded(table, botId, item) ==
  \E rec \in table : rec.bot_id = botId /\ rec.item_guid = item.guid

\* The table holds a row of the bot with the link of the item.
LinkRecorded(table, botId, item) ==
  \E rec \in table : rec.bot_id = botId /\ rec.item_link = item.link

\* The item of the batch matches no row of the bot in the ledger.
Unrecorded(item) ==
  /\ ~GuidRecorded(ledger, dedup.botId, item)
  /\ ~LinkRecorded(ledger, dedup.botId, item)

\* No lookup of the batch fails.
LookupsSucceed == \A k \in 1..Len(dedup.faults) : dedup.faults[k] = "none"

\* The rows of a table older than the retention at the time of the cleanup.
OlderThanRetention(table) ==
  {rec \in table : now - rec.processed_at > RetentionDays * SecondsPerDay}

(***************************************************************************)
(* C21: when the lookups succeed, isItemProcessed is true exactly when the *)
(* ledger holds a row of the bot with the guid of the item or a row of the *)
(* bot with its link, and filterUnprocessedItems returns, in input order,  *)
(* the items that match neither: an item with a recorded guid and another  *)
(* link is dropped, and so is an item of which only the link is recorded.  *)
(***************************************************************************)
C21_GuidOrLinkFiltered ==
  (dedup.op = "filter" /\ dedup.pc = "done" /\ LookupsSucceed) =>
    /\ \A x \in DedupItems :
         isItemProcessed(ledger, dedup.botId, x, TRUE, TRUE)
           <=> (GuidRecorded(ledger, dedup.botId, x)
                  \/ LinkRecorded(ledger, dedup.botId, x))
    /\ dedup.out = SelectSeq(dedup.items, Unrecorded)

\* A batch of three: the first shares its guid, not its link, with a row of
\* the bot, the second only its link, the third neither; the third is kept.
C21_Witness ==
  /\ dedup.op = "filter" /\ dedup.pc = "done" /\ LookupsSucceed
  /\ Len(dedup.items) = 3
  /\ GuidRecorded(ledger, dedup.botId, dedup.items[1])
  /\ ~LinkRecorded(ledger, dedup.botId, dedup.items[1])
  /\ ~GuidRecorded(ledger, dedup.botId, dedup.items[2])
  /\ LinkRecorded(ledger, dedup.botId, dedup.items[2])
  /\ Unrecorded(dedup.items[3])
  /\ dedup.out = <<dedup.items[3]>>

RowsOfMarkedGuid ==
  {rec \in ledger : /\ rec.bot_id = dedup.botId
                    /\ rec.item_guid = dedup.items[1].guid}

\* The link of the item is recorded for the bot under another guid.
LinkTaken(table, botId, item) ==
  \E rec \in table : /\ rec.bot_id = botId
                     /\ rec.item_link = item.link
                     /\ rec.item_guid # item.guid

\* A call of markItemAsProcessed whose insert violates a uniqueness constraint
\* (guid or link) has returned true and left the ledger as it was.
ViolationIsSuccess ==
  \A k \in 1..Len(dedup.returned) :
     (/\ k = Len(dedup.returned)
      /\ dedup.faults[k] = "none"
      /\ UniqueViolation(dedup.before,
            LedgerRecord(dedup.botId, dedup.items[k], NewPostId(k, 1)))) =>
        /\ dedup.returned[k] = TRUE
        /\ ledger = dedup.before

Contains(str, t) == t = <<>> \/ \E k \in 1..Len(str) : str[k] = t[1]

\* The call of the service failed or returned an empty completion.
Failing(outcome) == outcome.kind # "ok"

\* Invocations of fn, or generation calls, started so far.
Invocations == Len(summ.outcomes) + summ.inFlight

\* The entry of the batch output for an item and its summary.
Entry(item, summary) ==
  [title |-> item.title, link |-> item.link, summary |-> summary]

(***************************************************************************)
(* C25: when the generation call fails or returns nothing, generateSummary *)
(* returns, raising nothing, a string of at most 280 characters that holds *)
(* the whole title and the whole link of the item, whatever their lengths. *)
(***************************************************************************)
C25_FallbackHasTitleAndLink ==
  (summ.op = "summary" /\ summ.pc = "done" /\ Failing(summ.outcomes[1])) =>
    /\ ~summ.out[1].raised
    /\ StrLen(summ.out[1].summary) <= MaxSummaryLength
    /\ Contains(summ.out[1].summary, summ.items[1].title)
    /\ Contains(summ.out[1].summary, summ.items[1].link)

(***************************************************************************)
(* C26: generateSummariesBatch returns one entry per input item, in input  *)
(* order; the entry of an item whose generation call failed carries the    *)
(* fallback summary, so that with every call failing every entry does.     *)
(***************************************************************************)
C26_BatchNeverDrops ==
  (summ.op = "batch" /\ summ.pc = "done") =>
    /\ Len(summ.out) = Len(summ.items)
    /\ \A k \in 1..Len(summ.items) :
         /\ summ.out[k].title = summ.items[k].title
         /\ summ.out[k].link = summ.items[k].link
         /\ Failing(summ.outcomes[k]) =>
              summ.out[k].summary = Fallback(summ.items[k])

\* A batch of MaxBatch items all of whose calls failed: as many entries, each
\* with the fallback of its item.
C26_Witness ==
  /\ summ.op = "batch" /\ summ.pc = "done"
  /\ Len(summ.items) = MaxBatch
  /\ \A k \in 1..MaxBatch : Failing(summ.outcomes[k])
  /\ summ.out = [k \in 1..MaxBatch |->
                   Entry(summ.items[k], Fallback(summ.items[k]))]

(***************************************************************************)
(* C27: generateSummariesBatch summarizes one item at a time, in input     *)
(* order, never with two generation calls in flight, and calls the service *)
(* once for each item (no retry); an item whose generation call fails is   *)
(* kept in the output with the fallback summary, and the items after it    *)
(* are still processed.                                                    *)
(***************************************************************************)
C27_BatchSequential ==
  summ.op = "batch" =>
    /\ summ.inFlight <= 1
    /\ summ.inFlight = 1 <=> summ.pc = "await"
    /\ \A k \in 1..Len(summ.items) :
         summ.calls[k] = IF k < summ.i \/ (k = summ.i /\ summ.pc # "next")
                         THEN 1 ELSE 0
    /\ Len(summ.out) = Len(summ.outcomes)
    /\ \A k \in 1..Len(summ.outcomes) :
         summ.out[k] =
           Entry(summ.items[k], IF Failing(summ.outcomes[k])
                                THEN Fallback(summ.items[k]) ELSE Generated)
    /\ summ.pc = "done" => Len(summ.outcomes) = Len(summ.items)

\* The call of the first item failed: the item is in the output with its
\* fallback, and the items after it were summarized, one call each.
C27_Witness ==
  /\ summ.op = "batch" /\ summ.pc = "done"
  /\ Len(summ.items) = MaxBatch
  /\ Failing(summ.outcomes[1])
  /\ summ.out[1] = Entry(summ.items[1], Fallback(summ.items[1]))
  /\ \A k \in 2..MaxBatch :
       /\ ~Failing(summ.outcomes[k])
       /\ summ.calls[k] = 1
       /\ summ.out[k] = Entry(summ.items[k], Generated)

\* C27 as stated: the output of a finished batch holds the items whose
\* generation call succeeded and leaves out every item whose call failed.
C27_FailedItemLeftOut ==
  (summ.op = "batch" /\ summ.pc = "done") =>
    /\ \A k \in 1..Len(summ.items) : summ.calls[k] = 1
    /\ Len(summ.out) =
         Cardinality({k \in 1..Len(summ.items) : ~Failing(summ.outcomes[k])})
    /\ \A k \in 1..Len(summ.out) : summ.out[k].summary = Generated

(***************************************************************************)
(* C30: retryWithBackoff(fn, maxRetries) invokes fn at most maxRetries     *)
(* times; it returns the result of the first invocation that succeeds and  *)
(* invokes fn no more; it throws the last error after maxRetries failed    *)
(* invocations; an error with status 401 or 403 is thrown at once, with no *)
(* further invocation.                                                     *)
(***************************************************************************)
C30_RetryWithBackoff ==
  summ.op = "retry" =>
    LET n == Len(summ.outcomes)
    IN /\ Invocations <= summ.maxRetries
       /\ \A k \in 1..(n - 1) :
            /\ summ.outcomes[k].kind = "error"
            /\ ~IsAuthError(summ.outcomes[k])
       /\ summ.pc = "returned" =>
            /\ summ.outcomes[n].kind = "ok"
            /\ summ.value = n
            /\ summ.inFlight = 0
       /\ summ.pc = "thrown" =>
            /\ summ.inFlight = 0
            /\ n > 0 =>
                 /\ summ.outcomes[n].kind = "error"
                 /\ summ.thrown = [status |-> summ.outcomes[n].status,
                                   attempt |-> n]
                 /\ IsAuthError(summ.outcomes[n]) \/ n = summ.maxRetries
       /\ (n > 0 /\ summ.pc \in {"next", "sleep", "await"}) =>
            /\ summ.outcomes[n].kind = "error"
            /\ ~IsAuthError(summ.outcomes[n])
            /\ n < summ.maxRetries

\* With maxRetries = 3: two failures and a success returned the result of
\* the third invocation.
C30_Witness ==
  /\ summ.op = "retry" /\ summ.pc = "returned"
  /\ summ.maxRetries = 3
  /\ Len(summ.outcomes) = 3
  /\ summ.value = 3

(***************************************************************************)
(* Vocabulary of the claim about the start of the process.                 *)
(***************************************************************************)
\* The bots whose configuration has an error.
InvalidBots == {b \in Bots : proc.defects[b] # {}}

\* The message validateBotConfig has for a required field that is missing.
MessageOf(field) ==
  CASE field = "id" -> "Bot ID is required"
    [] field = "name" -> "Bot name is required"
    [] field = "username" -> "Bot username is required"
    [] field = "email" -> "Bot email is required"
    [] field = "user_id" -> "Bot user_id is required"
    [] field = "feeds" -> "At least one RSS feed is required"
    [] field = "schedule" -> "Bot schedule is required"

\* No client exists, no trigger or timer is registered, no run has started.
NothingStarted ==
  /\ ~proc.clients
  /\ proc.cleanupJob = "none"
  /\ proc.timers = {}
  /\ \A b \in Bots : proc.scheduledJobs[b] = "none" /\ proc.active[b] = 0
  /\ proc.cycle.state = "none"
  /\ runsStarted = 0

(***************************************************************************)
(* C29: with a bot that misses a required field the process never gets     *)
(* past main: it ends with exit code 1 before a client is initialized, a   *)
(* trigger or timer registered or a run started; validateAllBots, reached  *)
(* when the environment variables are set, has then reported one entry for *)
(* every invalid bot, in configuration order, with the message of every    *)
(* field that bot misses.                                                  *)
(***************************************************************************)
C29_InvalidConfigAborts ==
  proc.pc # "none" =>
    /\ InvalidBots # {} => (proc.pc \in {"main", "aborted"} /\ NothingStarted)
    /\ (proc.pc = "aborted" /\ proc.envOk) =>
         /\ InvalidBots # {}
         /\ Len(proc.reported) = Cardinality(InvalidBots)
         /\ \A b \in InvalidBots :
              \E k \in 1..Len(proc.reported) :
                 /\ k = Cardinality({x \in InvalidBots : IndexOf(x) <= IndexOf(b)})
                 /\ proc.reported[k].bot =
                      LoadedConfig(b, proc.defects[b]).id
                 /\ \A f \in proc.defects[b] \cap RequiredFields :
                      MessageOf(f) \in Range(proc.reported[k].errors)
    /\ (proc.envOk /\ InvalidBots = {}) => proc.pc # "aborted"

\* Both bots are invalid, the second missing two fields: the process has
\* ended in main with both reported and nothing started.
C29_Witness ==
  /\ proc.pc = "aborted" /\ proc.envOk
  /\ proc.defects["botA"] = {"email"}
  /\ proc.defects["botB"] = {"feeds", "schedule"}
  /\ Len(proc.reported) = 2
  /\ proc.reported[2].errors =
       <<"At least one RSS feed is required", "Bot schedule is required">>
  /\ NothingStarted

(***************************************************************************)
(* Vocabulary of the claim about recurring runs.                           *)
(***************************************************************************)
\* The items the feeds list, as the fetcher hands them on.
ListedItems ==
  UNION {{normalizeItem(FeedContent[f][k], f) : k \in 1..Len(FeedContent[f])} :
           f \in FeedUrls}

\* The run of the last firing has returned having found the item new and in
\* the window, and the bot has no post of it.
Missed(item) ==
  /\ run[1].pc \in {"done", "failed"}
  /\ item \in Range(run[1].seenNew)
  /\ PostsFor(run[1].bot, item) = {}

\* The bot of the firings has a post of the item.
Published(item) ==
  run[1].bot # Null /\ PostsFor(run[1].bot, item) # {}

(***************************************************************************)
(* C28: an item that a run found new and inside the fetch window and did   *)
(* not publish is published by a later run of the same bot, the trigger    *)
(* firing on and the stores accepting the writes in the end.               *)
(***************************************************************************)
C28_NoItemLost ==
  \A item \in ListedItems : Missed(item) ~> Published(item)

(***************************************************************************)
(* C31: generateSummaryWithRetry returns the generated summary of the      *)
(* first call that succeeds, and returns the fallback only after an        *)
(* authorization error or after maxRetries calls have failed.              *)
(***************************************************************************)
C31_RetriesUntilSuccess ==
  (summ.op = "withRetry" /\ summ.pc = "returned") =>
    LET n == Len(summ.outcomes)
    IN \/ summ.outcomes[n].kind = "ok" /\ summ.value = Generated
       \/ /\ Failing(summ.outcomes[n])
          /\ summ.value = Fallback(summ.items[1])
          /\ n = summ.maxRetries \/ IsAuthError(summ.outcomes[n])

(***************************************************************************)
(* C32: every call of runBot returns, in Done or in Failed, the external   *)
(* calls returning or failing in the end; a run with an error recorded is  *)
(* in Failed, and a run that has returned takes no further step: it is the *)
(* next firing of the trigger that starts the next run.                    *)
(***************************************************************************)
C32_RunTerminates ==
  /\ (run[1].pc \in Active) ~> (run[1].pc \in {"done", "failed"})
  /\ [](run[1].pc \in {"idle", "done", "failed"} \cup Active)
  /\ [](run[1].results.errors # <<>> => run[1].pc = "failed")
  /\ [][run[1].pc \in {"done", "failed"} =>
          (run'[1] = run[1] \/ (run'[1].pc = "verify" /\ run'[1].results = NewResults))]_vars

\* The second run of the bot met a failing external call and has returned in
\* Failed with the one message, after the first run had returned.
C32_Witness ==
  /\ run[1].pc = "failed" /\ run[1].seq = 2
  /\ Len(run[1].results.errors) = 1
  /\ ~run[1].results.success

(***************************************************************************)
(* C33: a run that has returned has success = false exactly when its       *)
(* errors list is non-empty; the only message is that of the missing       *)
(* profile, and such a run did nothing after the check.  A run that lost a *)
(* feed, a post insert or a ledger insert on the way returns with          *)
(* success = true and no error.                                            *)
(***************************************************************************)
C33_SuccessIffNoErrors ==
  run[1].pc \in {"done", "failed"} =>
    /\ ~run[1].results.success <=> run[1].results.errors # <<>>
    /\ run[1].results.errors \in {<<>>, <<"Bot profile not found">>}
    /\ run[1].results.errors # <<>> =>
          /\ run[1].pool = <<>> /\ run[1].failed = {}
          /\ run[1].nullPosts = {} /\ run[1].createdPosts = <<>>
    /\ (\/ run[1].failed # {}
        \/ run[1].nullPosts # {}
        \/ run[1].marked < Len(run[1].createdPosts))
          => run[1].results.success /\ run[1].pc = "done"

\* A run whose one post insert failed has returned in Done.
C33_Witness ==
  /\ run[1].pc = "done"
  /\ run[1].nullPosts # {}
  /\ run[1].results.success
  /\ run[1].results.errors = <<>>

\* The posts the store holds for the first n items of a batch, in the order of
\* the items, each with its item.
RECURSIVE InsertedUpTo(_, _)
InsertedUpTo(rn, n) ==
  IF n = 0 THEN <<>>
  ELSE LET row == PostRow(NewPostId(rn.seq, n), BOT_CONFIGS[rn.bot], rn.itemsToPost[n])
       IN IF row \in posts
          THEN Append(InsertedUpTo(rn, n - 1), [post |-> row.id, item |-> rn.itemsToPost[n]])
          ELSE InsertedUpTo(rn, n - 1)

\* The number of items a batch has attempted so far.
AttemptsOf(rn) == IF rn.pc = "post" THEN rn.i - 1 ELSE Len(rn.itemsToPost)

(***************************************************************************)
(* C34: createPostsBatch takes the first maxPosts items and attempts them  *)
(* one after the other, each once: an item attempted has either its post   *)
(* in the store or a null result, an item not yet attempted has neither, a *)
(* failed insert does not end the batch, and the list returned holds the   *)
(* items whose insert succeeded, in their order, each with its post.       *)
(***************************************************************************)
C34_BatchAttemptsEachOnce ==
  (run[1].pc \in {"post", "mark", "done"} /\ run[1].seq < MaxFirings) =>
    LET rn == run[1]
        n  == AttemptsOf(rn)
    IN /\ rn.pc = "post" =>
             rn.itemsToPost = Slice(rn.itemsToProcess, options.maxPostsPerRun)
       /\ Len(rn.itemsToPost) <= options.maxPostsPerRun
       /\ rn.createdPosts = InsertedUpTo(rn, n)
       /\ \A p \in PostsOfRun(rn.seq) :
             \E j \in 1..n :
                p = PostRow(NewPostId(rn.seq, j), BOT_CONFIGS[rn.bot], rn.itemsToPost[j])
       /\ \A j \in 1..n :
             \/ PostRow(NewPostId(rn.seq, j), BOT_CONFIGS[rn.bot], rn.itemsToPost[j]) \in posts
             \/ rn.itemsToPost[j] \in rn.nullPosts
       /\ rn.nullPosts \subseteq Range(rn.itemsToPost)

\* The insert for the first of two items failed and the second item was still
\* attempted: the list returned holds the second item alone, with its post.
C34_Witness ==
  /\ run[1].pc \in {"mark", "done"}
  /\ Len(run[1].itemsToPost) = 2
  /\ run[1].itemsToPost[1] \in run[1].nullPosts
  /\ Len(run[1].createdPosts) = 1
  /\ run[1].createdPosts[1].item = run[1].itemsToPost[2]
  /\ run[1].createdPosts[1].post = NewPostId(run[1].seq, 2)

\* The ledger records and the posts of one bot in a pair of tables.
RecordsOfBot(table, b) == {rec \in table : rec.bot_id = BOT_CONFIGS[b].id}

PostsOfBot(table, b) == {p \in table : p.user_id = BOT_CONFIGS[b].user_id}

(***************************************************************************)
(* C35: the lookup of a bot gives what it gives over the bot's own records *)
(* alone; an item of the pool that a run filtered out has a record of the  *)
(* run's own bot; a step changes the records and the posts of a bot only   *)
(* if it is a step of a run of that bot; and an item that a run published  *)
(* has its post under the run's bot whatever the other bot published.      *)
(***************************************************************************)
C35_BotIsolation ==
  /\ [](\A b \in Bots : \A r \in Runs : \A x \in Range(run[r].pool) :
          isItemProcessed(ledger, BOT_CONFIGS[b].id, x, TRUE, TRUE)
            <=> isItemProcessed(RecordsOfBot(ledger, b), BOT_CONFIGS[b].id, x, TRUE, TRUE))
  /\ [](\A r \in Runs :
          (Selected(r) /\ ~hist.lookupFault) =>
             \A x \in Range(run[r].pool) :
                x \notin Range(run[r].seenNew) =>
                  \E rec \in RecordsOfBot(ledger, run[r].bot) :
                     rec.item_guid = x.guid \/ rec.item_link = x.link)
  /\ [](\A r \in Runs :
          run[r].pc \in {"mark", "done"} =>
             \A j \in 1..Len(run[r].createdPosts) :
                \E p \in PostsOfBot(posts, run[r].bot) :
                   /\ p.id = run[r].createdPosts[j].post
                   /\ p.guid = run[r].createdPosts[j].item.guid)
  /\ [][\A b \in Bots :
          (\/ RecordsOfBot(ledger', b) # RecordsOfBot(ledger, b)
           \/ PostsOfBot(posts', b) # PostsOfBot(posts, b))
            => \E r \in Runs :
                  /\ run[r].bot = b /\ run[r].pc \in {"post", "mark"}
                  /\ run'[r] # run[r]
                  /\ \A q \in Runs \ {r} : run'[q] = run[q]]_vars

\* Both bots have a post and a ledger record for the same item of the source
\* they share.
C35_Witness ==
  \E p, q \in posts : \E a, c \in ledger :
     /\ p.user_id # q.user_id
     /\ p.guid = q.guid /\ p.rss_source_url = q.rss_source_url
     /\ a.bot_id # c.bot_id
     /\ a.created_post_id = p.id /\ c.created_post_id = q.id
     /\ a.item_link = p.rss_source_url /\ c.item_link = q.rss_source_url

(***************************************************************************)
(* C36: in scheduled operation at most one run of a given bot is in        *)
(* progress at any time: a firing of the bot's trigger while the bot's     *)
(* previous run has not returned starts no second run.                     *)
(***************************************************************************)
C36_NoOverlappingRunsOfOneBot ==
  \A b \in Bots : proc.active[b] <= 1

(***************************************************************************)
(* C37: one run creates at most one post for items of its pool that share  *)
(* the guid or the link: no two posts of one run are made from items with  *)
(* the same guid or the same link.                                         *)
(***************************************************************************)
C37_OnePostPerDuplicate ==
  \A n \in 1..runsStarted : \A p, q \in PostsOfRun(n) :
     p # q => (p.guid # q.guid /\ p.rss_source_url # q.rss_source_url)

\* The in-window items of the sources of the run's bot whose fetch succeeded.
FetchedBy(rn) ==
  UNION {RecentOf(f) : f \in Range(BOT_CONFIGS[rn.bot].feeds) \ rn.failed}

(***************************************************************************)
(* C38: in the result record of a run, at every step and at its return,    *)
(* postsCreated <= itemsNew <= itemsFetched and postsCreated <=            *)
(* maxPostsPerRun; at the return of a run in Done itemsFetched is the      *)
(* number of in-window items of the sources whose fetch succeeded and      *)
(* itemsNew the number of them the ledger filter let through, and a run in *)
(* Failed has the three counters at 0.                                     *)
(***************************************************************************)
C38_CountersOrdered ==
  LET res == run[1].results
  IN /\ res.postsCreated <= res.itemsNew
     /\ res.itemsNew <= res.itemsFetched
     /\ res.postsCreated <= options.maxPostsPerRun
     /\ run[1].pc = "done" =>
           /\ res.itemsFetched = Cardinality(FetchedBy(run[1]))
           /\ res.itemsFetched = Len(run[1].pool)
           /\ res.itemsNew = Len(run[1].seenNew)
           /\ Range(run[1].seenNew) \subseteq FetchedBy(run[1])
           /\ res.postsCreated = Len(run[1].createdPosts)
     /\ run[1].pc = "failed" =>
           res.itemsFetched = 0 /\ res.itemsNew = 0 /\ res.postsCreated = 0

\* A later run of a bot has returned with more items fetched than new and more
\* new than posted: the ledger held one of the fetched items and the insert of
\* a post failed.
C38_Witness ==
  /\ run[1].pc = "done" /\ run[1].seq >= 2
  /\ run[1].nullPosts # {}
  /\ run[1].results.postsCreated < run[1].results.itemsNew
  /\ run[1].results.itemsNew < run[1].results.itemsFetched

(***************************************************************************)
(* C39: whatever POST requests were served, also overlapping ones, the     *)
(* embedding cache holds at most CACHE_MAX_SIZE entries, each key once;    *)
(* the cache changes only when an embedding is stored, and storing a new   *)
(* key into a full cache removes the earliest-inserted entry and puts the  *)
(* new key last, while below the limit nothing is removed.                 *)
(***************************************************************************)
C39_CacheBounded ==
  /\ [](/\ Len(search.cache) <= CACHE_MAX_SIZE
        /\ \A i, j \in 1..Len(search.cache) :
              i # j => search.cache[i] # search.cache[j])
  /\ [][\A s \in Requests :
          (search.req[s].pc = "embedding" /\ search'.req[s].pc = "rpc") =>
             LET k == search.req[s].cacheKey
                 c == search.cache
             IN /\ (~MapHas(c, k) /\ Len(c) = CACHE_MAX_SIZE)
                     => search'.cache = Append(Tail(c), k)
                /\ (~MapHas(c, k) /\ Len(c) < CACHE_MAX_SIZE)
                     => search'.cache = Append(c, k)
                /\ MapHas(search'.cache, k)]_vars
  /\ [][search'.cache # search.cache =>
          \E s \in Requests :
             search.req[s].pc = "embedding" /\ search'.req[s].pc = "rpc"]_vars

\* While another request was awaiting its embedding, a request stored a new
\* key into the full cache: the first key was removed and the cache is full
\* again.
C39_Witness ==
  \E s, t \in Requests :
     /\ s # t
     /\ search.req[s].pc = "rpc" /\ ~search.req[s].cached
     /\ search.req[s].firstKey # <<>>
     /\ ~MapHas(search.cache, search.req[s].firstKey[1])
     /\ search.req[t].pc = "embedding"
     /\ ~MapHas(search.cache, search.req[t].cacheKey)
     /\ Len(search.cache) = CACHE_MAX_SIZE

====
